---- MODULE Spec2Model ----
(***************************************************************************)
(* UAM TypeScript SDK: the Agent (send / inbox / approve / deny / block),  *)
(* the HandshakeManager and the ContactBook, as one state machine.         *)
(*                                                                         *)
(* Keys are abstract identities: a signature is modelled by the key that   *)
(* produced it, so verifyEnvelope(e, vk) succeeds exactly when e was       *)
(* signed by vk; a Box payload is modelled by the sender key it was        *)
(* encrypted under (NoKey: not decryptable by this agent).                 *)
(* An address is the pair <<agent, domain>> of the string agent::domain;   *)
(* a block pattern is an address or <<"*", domain>> for *::domain.         *)
(***************************************************************************)
EXTENDS Integers, Sequences, FiniteSets, TLC

\* ------------------------------------------------------------------ bounds
NSend == 2          \* concurrent Agent.send tasks
MaxBatch == 1       \* envelopes returned by one transport.receive
MaxClock == 1       \* seconds the clock of datetime('now') advances
MaxRelays == 2      \* relay URLs listed for one recipient
MaxFrames == 3      \* frames that arrive on the WebSocket
MaxLimit == 2       \* largest limit passed to receive
MaxKeys == 2        \* entries of a map handed to canonicalize
MaxMissing == 2     \* fields taken out of a wire dict
MaxBlocks == 5      \* number of the last block mined
MaxRenewals == 1    \* renewals of one lease
MaxAttempts == 7    \* consecutive failed attempts of one connection loop
MaxTransports == 2  \* transports one Agent creates
MaxHours == 2       \* cache lifetimes the clock of Date.now() runs through

\* ------------------------------------------------------------------ domains
Addr == {<<"alice", "x.org">>, <<"bob", "y.net">>}
Keys == {"k1", "k2"}
NoKey == "nokey"
Null == "null"
NoContact == [absent |-> TRUE]
NoPending == [absent |-> TRUE]
NoCard == [absent |-> TRUE]
NoError == [absent |-> TRUE]
Senders == 1..NSend

VALID_POLICIES == {"auto-accept", "approval-required", "allowlist-only", "require_verify"}

\* The policies an Agent is constructed with here: require_verify takes the same
\* branches as approval-required everywhere in the SDK.
Policies == VALID_POLICIES \ {"require_verify"}

MessageType == {"message", "handshake.request", "handshake.accept", "handshake.deny",
                "receipt.delivered", "receipt.read", "receipt.failed",
                "session.request", "session.accept", "session.decline", "session.end"}

\* Inbound types the relay is made to deliver (one per family and handler branch).
InTypes == {"message", "handshake.request", "handshake.accept", "handshake.deny",
            "receipt.read", "session.request"}

\* type.startsWith(prefix), for the three prefixes the code tests
startsWith(type, prefix) ==
    CASE prefix = "receipt."   -> type \in {"receipt.delivered", "receipt.read", "receipt.failed"}
      [] prefix = "handshake." -> type \in {"handshake.request", "handshake.accept", "handshake.deny"}
      [] prefix = "session."   -> type \in {"session.request", "session.accept", "session.decline", "session.end"}
      [] OTHER -> FALSE

\* Block patterns handed to block()/unblock()
BlockInputs == {<<"alice", "x.org">>, <<"*", "y.net">>}

VARIABLES
    connected,        \* Agent._connected
    trustPolicy,      \* HandshakeManager._trustPolicy (fixed at construction)
    resolverKey,      \* what the resolver answers for an address (NoKey: resolution fails)
    contacts,         \* contacts table: address -> row or NoContact
    knownAddresses,   \* ContactBook._knownAddresses
    pending,          \* pending_handshakes table: address -> entry or NoPending
    blockedPatterns,  \* blocked_patterns table
    blockedExact,     \* ContactBook._blockedExact
    blockedDomains,   \* ContactBook._blockedDomains
    emitted,          \* envelopes handed to the transport by the last step
    inPc,             \* inbox task: "idle", "loop", "raised"
    inRemaining,      \* envelopes of the batch not yet processed
    inExit,           \* how the last _processInbound of the running inbox call ended
    inResult,         \* result list of the running inbox call
    sendPc,           \* send task position
    sendTo,           \* send task: toAddress
    sendVk,           \* send task: recipientVk
    sendHs,           \* send task: HANDSHAKE_REQUEST envelopes it has emitted
    sendCase,         \* send task: what it found for toAddress when it was called
    now,              \* the clock read by datetime('now')
    apiError,         \* the error the last approve/deny call ended with (Null: none)
    relayUrls,        \* what _getRelayUrls returns for the recipient of the send
    foPc,             \* relay delivery of a send: "idle", "own", "failover", "returned", "raised"
    foPosted,         \* relays the envelope was posted to, in order
    foAccepted,       \* relays that accepted the envelope, in order
    lastError,        \* _trySendWithFailover's lastError: the relay whose post failed last
    agent,            \* the Agent's own fields: token, address, contact book handle, transport,
                      \* and what the last connect()/close() call did
    wsOnMessage,      \* WebSocketTransport._onMessage is set
    wsPending,        \* WebSocketTransport._pending
    wsArrived,        \* every frame the socket delivered, in arrival order
    wsDispatched,     \* frames handed to the listener callback, in order
    wsReceived,       \* frames returned by receive calls so far, in order
    wsResult,         \* what the last receive call returned
    fnPc,             \* where a call sequence of the pure protocol functions stands
    fnArgs,           \* the inputs drawn for that call sequence
    fnResult,         \* what the calls returned so far
    chain,            \* the chain UAMNameRegistry runs on: block number and timestamp, and
                      \* the contract's records, commitments and nameCount
    transports,       \* the WebSocketTransport objects whose connection loop is followed,
                      \* oldest first
    tier3Resolver     \* the Tier3Resolver: its TTL, its _cache and the names whose
                      \* readContract is awaited

cbVars == <<contacts, knownAddresses, pending, blockedPatterns, blockedExact, blockedDomains>>
inVars == <<inPc, inRemaining, inExit, inResult>>
sendVars == <<sendPc, sendTo, sendVk, sendHs, sendCase>>
foVars == <<relayUrls, foPc, foPosted, foAccepted, lastError>>
lcVars == <<agent>>
tpVars == <<wsOnMessage, wsPending, wsArrived, wsDispatched, wsReceived, wsResult>>
fnVars == <<fnPc, fnArgs, fnResult>>
sysVars == <<chain, transports, tier3Resolver>>
extVars == <<lcVars, tpVars, fnVars, sysVars>>
vars == <<connected, trustPolicy, resolverKey, contacts, knownAddresses, pending,
          blockedPatterns, blockedExact, blockedDomains, emitted,
          inPc, inRemaining, inExit, inResult, sendPc, sendTo, sendVk, sendHs, sendCase,
          now, apiError, relayUrls, foPc, foPosted, foAccepted, lastError, extVars>>

Env(type, to) == [type |-> type, to |-> to]

\* ------------------------------------------------------------ ContactBook
isKnown(address) == address \in knownAddresses

\* isBlocked without the domain cache: what the gate would be were *::domain
\* patterns ignored
isBlocked_ExactOnly(address) == address \in blockedExact

isBlocked(address) ==
    \/ address \in blockedExact
    \/ address[2] \in blockedDomains

getPublicKey(address) ==
    IF contacts[address] = NoContact THEN Null ELSE contacts[address].public_key

getTrustState(address) ==
    IF contacts[address] = NoContact THEN Null ELSE contacts[address].trust_state

isTrustedOrVerified(address) ==
    getTrustState(address) \in {"trusted", "verified", "pinned"}

\* The pinned_at column: NULL, or the datetime('now') of the stamp
NoStamp == <<>>
Stamp(t) == <<t>>

\* INSERT ... ON CONFLICT(address) DO UPDATE: the contacts table after the upsert
addContact(table, address, publicKey, trustState, trustSource) ==
    [table EXCEPT ![address] =
        IF @ = NoContact
        THEN [public_key |-> publicKey, trust_state |-> trustState,
              trust_source |-> trustSource, pinned_at |-> NoStamp]
        ELSE [@ EXCEPT !.public_key = publicKey,
                       !.trust_state = trustState,
                       !.trust_source = IF trustSource # Null THEN trustSource ELSE @]]

\* setPinnedAt that sets the trust state and leaves pinned_at alone
setPinnedAt_NoStamp(table, address) ==
    [table EXCEPT ![address] =
        IF @ = NoContact THEN @ ELSE [@ EXCEPT !.trust_state = "pinned"]]

\* UPDATE contacts SET pinned_at = datetime('now'), trust_state = 'pinned' WHERE address = ?
setPinnedAt(table, address) ==
    [table EXCEPT ![address] =
        IF @ = NoContact THEN @ ELSE [@ EXCEPT !.pinned_at = Stamp(now), !.trust_state = "pinned"]]

\* addPending were it to file the entry under the address the card names
addPending_UnderCard(table, address, card) ==
    [table EXCEPT ![card.address] = [card |-> card, expired |-> FALSE]]

\* INSERT OR REPLACE INTO pending_handshakes
addPending(table, address, card) ==
    [table EXCEPT ![address] = [card |-> card, expired |-> FALSE]]

\* removePending that deletes nothing
removePending_Keep(table, address) == table

removePending(table, address) == [table EXCEPT ![address] = NoPending]

getExpiredPending == {a \in Addr : pending[a] # NoPending /\ pending[a].expired}

cacheExact(exact, pattern) == IF pattern[1] = "*" THEN exact ELSE exact \cup {pattern}
cacheDomains(domains, pattern) == IF pattern[1] = "*" THEN domains \cup {pattern[2]} ELSE domains
uncacheExact(exact, pattern) == IF pattern[1] = "*" THEN exact ELSE exact \ {pattern}
\* _uncacheBlockPattern that leaves a *::domain entry in the cache
uncacheDomains_Keep(domains, pattern) == domains
uncacheDomains(domains, pattern) == IF pattern[1] = "*" THEN domains \ {pattern[2]} ELSE domains

\* ------------------------------------------------------------ protocol
\* verifyEnvelope were it to accept every signature
verifyEnvelope_AcceptAll(raw, senderVerifyKey) == TRUE

\* verifyEnvelope: the signature verifies under senderVerifyKey
verifyEnvelope(raw, senderVerifyKey) == raw.sig = senderVerifyKey

\* decryptPayload (NaCl Box): opens only under the key the sender encrypted with
decryptPayload(raw, senderVerifyKey) == raw.enc = senderVerifyKey

\* decryptPayloadAnonymous (SealedBox): opens when it was sealed to this agent
decryptPayloadAnonymous(raw) == raw.enc # NoKey

\* verifyContactCard: the card's self-signature verifies under its embedded key
verifyContactCard(card) == card # NoCard /\ card.signer = card.public_key

\* fromWireDict raises InvalidEnvelopeError when a required wire field is missing
fromWireDictRaises(raw) == raw.missing

Card(address, publicKey, signer) ==
    [address |-> address, public_key |-> publicKey, signer |-> signer]

Raw(missing, from, type, sig, enc, card) ==
    [missing |-> missing, from |-> from, type |-> type, sig |-> sig, enc |-> enc, card |-> card]

\* The wire dicts transport.receive may return
\* Self-signed cards (alice under either key, bob) and one whose signature fails
Cards == {Card(<<"alice", "x.org">>, "k1", "k1"), Card(<<"alice", "x.org">>, "k2", "k2"),
          Card(<<"bob", "y.net">>, "k2", "k2"), Card(<<"alice", "x.org">>, "k1", "k2")}
RawEnvelopes ==
    {Raw(FALSE, f, t, s, s, NoCard) :
        f \in Addr, t \in InTypes \ {"handshake.request"}, s \in Keys}
    \cup {Raw(FALSE, f, "message", s, NoKey, NoCard) : f \in Addr, s \in Keys}
    \cup {Raw(FALSE, f, "handshake.request", s, s, c) : f \in Addr, s \in Keys, c \in Cards}
    \cup {Raw(FALSE, f, "handshake.request", s, NoKey, NoCard) : f \in Addr, s \in Keys}
    \cup {Raw(TRUE, <<"alice", "x.org">>, "message", "k1", "k1", NoCard)}

\* ------------------------------------------------------------ inbound path
NoMsg == [absent |-> TRUE]
ReceivedMessage(raw) == [fromAddress |-> raw.from, type |-> raw.type]

\* What one _processInbound call leaves behind: whether it threw, the message it
\* returned (NoMsg for null), the tables and the envelopes it sent.
\* exit names the return or the exception it ended with.
Outcome(exit, msg, ct, kn, pd, em) ==
    [exit |-> exit, msg |-> msg, contacts |-> ct, known |-> kn, pending |-> pd, emitted |-> em]
Dropped(exit) == Outcome(exit, NoMsg, contacts, knownAddresses, pending, <<>>)
Errors == {"InvalidEnvelopeError", "DecryptionError", "InvalidContactCardError", "TransportError"}

\* _handleRequest without its allowlist-only branch: such a request is queued
handleRequest_NoAllowlist(raw, senderVk, ok) ==
    IF ~decryptPayloadAnonymous(raw) THEN Dropped("DecryptionError")
    ELSE IF ~verifyContactCard(raw.card) THEN Dropped("InvalidContactCardError")
    ELSE IF trustPolicy = "auto-accept" THEN
        Outcome(IF ok THEN "handshake" ELSE "TransportError", NoMsg,
                addContact(contacts, raw.card.address, raw.card.public_key,
                           "provisional", "auto-accepted-provisional"),
                knownAddresses \cup {raw.card.address}, pending,
                IF ok THEN <<Env("handshake.accept", raw.from)>> ELSE <<>>)
    ELSE
        Outcome("handshake", NoMsg, contacts, knownAddresses,
                addPending(pending, raw.from, raw.card), <<>>)

\* HandshakeManager._handleRequest; ok: the transport accepts the reply
handleRequest(raw, senderVk, ok) ==
    IF ~decryptPayloadAnonymous(raw) THEN Dropped("DecryptionError")
    ELSE IF ~verifyContactCard(raw.card) THEN Dropped("InvalidContactCardError")
    ELSE IF trustPolicy = "auto-accept" THEN
        Outcome(IF ok THEN "handshake" ELSE "TransportError", NoMsg,
                addContact(contacts, raw.card.address, raw.card.public_key,
                           "provisional", "auto-accepted-provisional"),
                knownAddresses \cup {raw.card.address}, pending,
                IF ok THEN <<Env("handshake.accept", raw.from)>> ELSE <<>>)
    ELSE IF trustPolicy = "allowlist-only" THEN
        Outcome(IF ok THEN "handshake" ELSE "TransportError", NoMsg,
                contacts, knownAddresses, pending,
                IF ok THEN <<Env("handshake.deny", raw.from)>> ELSE <<>>)
    ELSE
        Outcome("handshake", NoMsg, contacts, knownAddresses,
                addPending(pending, raw.from, raw.card), <<>>)

\* HandshakeManager._handleAccept
handleAccept(raw, senderVk) ==
    Outcome("handshake", NoMsg,
            setPinnedAt(addContact(contacts, raw.from, senderVk, "pinned", Null), raw.from),
            knownAddresses \cup {raw.from}, pending, <<>>)

\* HandshakeManager.handleInbound: always returns null
handleInbound(raw, senderVk, ok) ==
    IF raw.type = "handshake.request" THEN handleRequest(raw, senderVk, ok)
    ELSE IF raw.type = "handshake.accept" THEN handleAccept(raw, senderVk)
    ELSE Dropped("handshake")

\* The key _processInbound verifies under: the contact book's, else the resolver's
senderKey(from) ==
    IF getPublicKey(from) # Null THEN getPublicKey(from) ELSE resolverKey[from]

\* The trust gate of _processInbound lets the message through
trustGatePasses(from) ==
    \/ trustPolicy = "auto-accept"
    \/ getTrustState(from) \in {"trusted", "verified"}

\* Agent._processInbound
processInbound(raw, ok) ==
    IF fromWireDictRaises(raw) THEN Dropped("InvalidEnvelopeError")
    ELSE IF isBlocked(raw.from) THEN Dropped("blocked")
    ELSE IF senderKey(raw.from) = NoKey THEN Dropped("unresolved")
    ELSE IF ~verifyEnvelope(raw, senderKey(raw.from)) THEN Dropped("badsig")
    ELSE IF raw.type \in {"handshake.request", "handshake.accept", "handshake.deny"}
         THEN handleInbound(raw, senderKey(raw.from), ok)
    ELSE IF ~trustGatePasses(raw.from) THEN Dropped("untrusted")
    ELSE IF ~decryptPayload(raw, senderKey(raw.from)) THEN Dropped("undecryptable")
    ELSE Outcome("returned", ReceivedMessage(raw), contacts, knownAddresses, pending, <<>>)

\* The anti-loop guard without its session. prefix
receiptSuppressed_NoSession(type) ==
    \/ startsWith(type, "receipt.")
    \/ startsWith(type, "handshake.")

\* The anti-loop guard of _sendReadReceipt
receiptSuppressed(type) ==
    \/ startsWith(type, "receipt.")
    \/ startsWith(type, "handshake.")
    \/ startsWith(type, "session.")

\* Agent._sendReadReceipt: the envelopes it hands to the transport (errors swallowed)
sendReadReceipt(msg, ok) ==
    IF receiptSuppressed(msg.type) THEN <<>>
    ELSE IF getPublicKey(msg.fromAddress) = Null THEN <<>>
    ELSE IF ok THEN <<Env("receipt.read", msg.fromAddress)>> ELSE <<>>

\* A fixed order of a set of addresses (the row order of a SELECT)
RECURSIVE SeqOf(_)
SeqOf(S) == IF S = {} THEN <<>> ELSE LET a == CHOOSE x \in S : TRUE IN <<a>> \o SeqOf(S \ {a})

\* Agent._sweepExpiredHandshakes: receipt.failed to each expired entry whose send
\* succeeds (delivered), every expired entry removed regardless
sweepEmitted(delivered) == [i \in 1..Len(SeqOf(delivered)) |-> Env("receipt.failed", SeqOf(delivered)[i])]

\* A sweep that sends the receipts and deletes nothing
sweepPending_None == pending

sweepPending == [a \in Addr |-> IF a \in getExpiredPending THEN NoPending ELSE pending[a]]

\* ------------------------------------------------------------ Agent lifecycle
\* The Agent after its constructor: no token, no address, no transport, contact
\* book not open. storedToken: KeyManager.loadToken finds a token on disk
NewAgent(storedToken, autoRegister) ==
    [token |-> Null, address |-> Null, storedToken |-> storedToken,
     autoRegister |-> autoRegister, db |-> "closed", transport |-> "none",
     didRegister |-> FALSE, didCreate |-> FALSE]

Agents == {NewAgent(st, ar) : st \in BOOLEAN, ar \in BOOLEAN}

\* connect() past its guard, every step succeeding: token loaded or obtained by
\* registering (and saved), transport created and connected, contact book opened
connectAgent(ag) ==
    [ag EXCEPT !.token = "token", !.address = "own", !.storedToken = TRUE,
               !.db = "open", !.transport = "connected",
               !.didRegister = ~ag.storedToken, !.didCreate = TRUE]

\* connect() stopping at a throw: no token and autoRegister off; the relay
\* refusing the registration; the transport failing to connect
connectFailsAgent(ag, cause) ==
    IF cause = "no-token" THEN [ag EXCEPT !.didRegister = FALSE, !.didCreate = FALSE]
    ELSE IF cause = "register" THEN [ag EXCEPT !.didRegister = TRUE, !.didCreate = FALSE]
    ELSE [ag EXCEPT !.token = "token", !.address = "own", !.storedToken = TRUE,
                    !.transport = "connecting",
                    !.didRegister = ~ag.storedToken, !.didCreate = TRUE]

\* The causes a connect() of this agent can fail with
connectFailures(ag) ==
    {"transport"} \cup (IF ag.storedToken THEN {}
                        ELSE IF ag.autoRegister THEN {"register"} ELSE {"no-token"})

\* connect() whose guard lets an already connected agent through
connectAgain_Reconnect(ag) == connectAgent([ag EXCEPT !.storedToken = FALSE])

\* connect() on a connected agent: if (this._connected) return
connectAgain(ag) == [ag EXCEPT !.didRegister = FALSE, !.didCreate = FALSE]

\* close(): ContactBook.close (nothing when _db is null), transport.disconnect
\* when a transport exists
closeAgent(ag) ==
    [ag EXCEPT !.db = "closed",
               !.transport = IF @ = "none" THEN "none" ELSE "disconnected",
               !.didRegister = FALSE, !.didCreate = FALSE]

\* ------------------------------------------------------------ UAMNameRegistry: storage
LEASE_DURATION == 31536000
GRACE_PERIOD == 2592000
MIN_COMMITMENT_AGE == 1
MAX_COMMITMENT_AGE == 86400

\* msg.sender of a transaction, and address(0)
Accounts == {"alice", "bob"}
ZeroAddress == "0x0"

\* The names a and b, and - which _validateName rejects
RegistryNames == {<<97>>, <<98>>}
InvalidNames == {<<45>>}
Secrets == {"s1"}

\* keccak256(abi.encodePacked(name, _owner, secret)): a hash is taken to be
\* collision-free, so it is the triple itself
makeCommitment(name, owner, secret) == <<name, owner, secret>>
CommitmentHashes ==
    {makeCommitment(name, owner, secret) :
        name \in RegistryNames \cup InvalidNames, owner \in Accounts, secret \in Secrets}

\* The value of a mapping slot that was never written
NoRecord == [owner |-> ZeroAddress, publicKey |-> "", expiry |-> 0, registeredAt |-> 0]
NoCommitment == [committer |-> ZeroAddress, timestamp |-> 0]

\* The chain after the constructor ran
NewChain ==
    [number |-> 1,
     timestamp |-> 1,
     records |-> [name \in RegistryNames \cup InvalidNames |-> NoRecord],
     commitments |-> [hash \in CommitmentHashes |-> NoCommitment],
     nameCount |-> [account \in Accounts \cup {ZeroAddress} |-> 0]]

\* No chain is looked at: the agent is constructed without a Tier 3 registry
NoChain == <<>>

\* What lies outside the agent while it is not part of what is looked at
IdleSystems ==
    /\ chain = NoChain
    /\ transports = <<>>
    /\ tier3Resolver = <<>>

\* ------------------------------------------------------------ actions
Init ==
    /\ connected = FALSE
    /\ trustPolicy \in Policies
    /\ resolverKey = [a \in Addr |-> IF a[1] = "alice" THEN "k1" ELSE "k2"]
    /\ contacts = [a \in Addr |-> NoContact]
    /\ knownAddresses = {}
    /\ pending = [a \in Addr |-> NoPending]
    /\ blockedPatterns = {}
    /\ blockedExact = {}
    /\ blockedDomains = {}
    /\ emitted = <<>>
    /\ inPc = "idle"
    /\ inRemaining = 0
    /\ inExit = Null
    /\ inResult = <<>>
    /\ sendPc = [i \in Senders |-> "idle"]
    /\ sendTo = [i \in Senders |-> Null]
    /\ sendVk = [i \in Senders |-> Null]
    /\ sendHs = [i \in Senders |-> 0]
    /\ sendCase = [i \in Senders |-> Null]
    /\ now = 0
    /\ apiError = Null
    /\ relayUrls = <<>>
    /\ foPc = "idle"
    /\ foPosted = <<>>
    /\ foAccepted = <<>>
    /\ lastError = NoError
    /\ agent = NewAgent(FALSE, TRUE)
    /\ wsOnMessage = FALSE
    /\ wsPending = <<>>
    /\ wsArrived = <<>>
    /\ wsDispatched = <<>>
    /\ wsReceived = <<>>
    /\ wsResult = <<>>
    /\ IdleSystems
    /\ fnPc = "idle"
    /\ fnArgs = <<>>
    /\ fnResult = <<>>

\* Agent.connect: open the contact book (load the caches), sweep
Connect ==
    /\ ~connected
    /\ agent.storedToken \/ agent.autoRegister
    /\ agent' = connectAgent(agent)
    /\ connected' = TRUE
    /\ knownAddresses' = {a \in Addr : contacts[a] # NoContact}
    /\ blockedExact' = {p \in blockedPatterns : p[1] # "*"}
    /\ blockedDomains' = {p[2] : p \in {q \in blockedPatterns : q[1] = "*"}}
    /\ \E delivered \in SUBSET getExpiredPending :
          emitted' = sweepEmitted(delivered)
    /\ pending' = sweepPending
    /\ UNCHANGED <<trustPolicy, resolverKey, contacts, blockedPatterns, inVars, sendVars>>
    /\ UNCHANGED <<now, apiError, foVars>>
    /\ UNCHANGED <<tpVars, fnVars, sysVars>>

\* Agent.inbox up to the return of transport.receive
InboxStart ==
    /\ connected
    /\ inPc = "idle"
    /\ \E delivered \in SUBSET getExpiredPending :
          emitted' = sweepEmitted(delivered)
    /\ pending' = sweepPending
    /\ \E n \in 0..MaxBatch : inRemaining' = n
    /\ inPc' = "loop"
    /\ inExit' = Null
    /\ inResult' = <<>>
    /\ UNCHANGED <<connected, trustPolicy, resolverKey, contacts, knownAddresses,
                   blockedPatterns, blockedExact, blockedDomains, sendVars>>
    /\ UNCHANGED <<now, apiError, foVars, extVars>>

\* One iteration of the inbox loop: _processInbound, then _sendReadReceipt
\* raw: the wire dict; ok: the transport accepts what is sent while handling it
InboxProcessOn(raw, ok) ==
    /\ inPc = "loop"
    /\ inRemaining > 0
    /\ LET r == processInbound(raw, ok) IN
        /\ inExit' = r.exit
        /\ contacts' = r.contacts
        /\ knownAddresses' = r.known
        /\ pending' = r.pending
        /\ IF r.exit \in Errors
           THEN /\ inPc' = "raised"
                /\ inRemaining' = 0
                /\ inResult' = <<>>
                /\ emitted' = r.emitted
           ELSE /\ inPc' = "loop"
                /\ inRemaining' = inRemaining - 1
                /\ IF r.msg # NoMsg
                   THEN /\ inResult' = Append(inResult, r.msg)
                        /\ emitted' = sendReadReceipt(r.msg, ok)
                   ELSE /\ inResult' = inResult
                        /\ emitted' = r.emitted
    /\ UNCHANGED <<connected, trustPolicy, resolverKey, blockedPatterns, blockedExact,
                   blockedDomains, sendVars>>
    /\ UNCHANGED <<now, apiError, foVars, extVars>>

\* A handshake.deny, a handshake.accept and a malformed dict never reach the transport
TransportOutcomes(raw) ==
    IF raw.missing \/ raw.type \in {"handshake.accept", "handshake.deny"}
    THEN {TRUE} ELSE BOOLEAN

InboxProcess ==
    \E raw \in RawEnvelopes : \E ok \in TransportOutcomes(raw) : InboxProcessOn(raw, ok)

\* Agent.inbox returns its result, or the exception reaches the caller
InboxReturn ==
    /\ \/ inPc = "loop" /\ inRemaining = 0
       \/ inPc = "raised"
    /\ inPc' = "idle"
    /\ inExit' = Null
    /\ inResult' = <<>>
    /\ inRemaining' = 0
    /\ emitted' = <<>>
    /\ UNCHANGED <<connected, trustPolicy, resolverKey, cbVars, sendVars>>
    /\ UNCHANGED <<now, apiError, foVars, extVars>>

\* Agent.approve(address) with a pending entry; ok: the transport accepts the reply
ApproveOn(address, ok) ==
    /\ connected
    /\ pending[address] # NoPending
    /\ LET card == pending[address].card IN
        /\ contacts' = addContact(contacts, card.address, card.public_key,
                                  "trusted", "explicit-approval")
        /\ knownAddresses' = knownAddresses \cup {card.address}
    /\ pending' = removePending(pending, address)
    /\ emitted' = IF ok THEN <<Env("handshake.accept", address)>> ELSE <<>>
    /\ UNCHANGED <<connected, trustPolicy, resolverKey, blockedPatterns, blockedExact,
                   blockedDomains, inVars, sendVars>>
    /\ apiError' = IF ok THEN Null ELSE "TransportError"
    /\ UNCHANGED <<now, foVars, extVars>>

Approve(address) == \E ok \in BOOLEAN : ApproveOn(address, ok)

\* Agent.approve(address) without a pending entry: throws UAMError
ApproveMissing(address) ==
    /\ connected
    /\ pending[address] = NoPending
    /\ apiError' = "UAMError"
    /\ emitted' = <<>>
    /\ UNCHANGED <<connected, trustPolicy, resolverKey, cbVars, inVars, sendVars, extVars, now, foVars>>

\* Agent.deny(address) with a pending entry; ok: the transport accepts the reply
DenyOn(address, ok) ==
    /\ connected
    /\ pending[address] # NoPending
    /\ pending' = removePending(pending, address)
    /\ emitted' = IF ok THEN <<Env("handshake.deny", address)>> ELSE <<>>
    /\ UNCHANGED <<connected, trustPolicy, resolverKey, contacts, knownAddresses,
                   blockedPatterns, blockedExact, blockedDomains, inVars, sendVars>>
    /\ apiError' = IF ok THEN Null ELSE "TransportError"
    /\ UNCHANGED <<now, foVars, extVars>>

Deny(address) == \E ok \in BOOLEAN : DenyOn(address, ok)

\* Agent.deny(address) without a pending entry: throws UAMError
DenyMissing(address) ==
    /\ connected
    /\ pending[address] = NoPending
    /\ apiError' = "UAMError"
    /\ emitted' = <<>>
    /\ UNCHANGED <<connected, trustPolicy, resolverKey, cbVars, inVars, sendVars, extVars, now, foVars>>

\* Agent.close between polls: the contact book and the transport are closed
Close ==
    /\ connected
    /\ inPc = "idle"
    /\ connected' = FALSE
    /\ agent' = closeAgent(agent)
    /\ emitted' = <<>>
    /\ UNCHANGED <<trustPolicy, resolverKey, cbVars, inVars, sendVars, now, apiError, foVars>>
    /\ UNCHANGED <<tpVars, fnVars, sysVars>>

\* Agent.connect on a connected agent
ConnectAgain ==
    /\ connected
    /\ agent' = connectAgain(agent)
    /\ apiError' = Null
    /\ emitted' = <<>>
    /\ UNCHANGED <<connected, trustPolicy, resolverKey, cbVars, inVars, sendVars, now, foVars>>
    /\ UNCHANGED <<tpVars, fnVars, sysVars>>

\* Agent.connect that throws before _connected is set
ConnectFails ==
    /\ ~connected
    /\ \E cause \in connectFailures(agent) :
          /\ agent' = connectFailsAgent(agent, cause)
          /\ apiError' = IF cause = "transport" THEN "TransportError" ELSE "UAMError"
    /\ emitted' = <<>>
    /\ UNCHANGED <<connected, trustPolicy, resolverKey, cbVars, inVars, sendVars, now, foVars>>
    /\ UNCHANGED <<tpVars, fnVars, sysVars>>

\* Agent.close on an agent that is not connected
CloseAgain ==
    /\ ~connected
    /\ agent' = closeAgent(agent)
    /\ apiError' = Null
    /\ emitted' = <<>>
    /\ UNCHANGED <<connected, trustPolicy, resolverKey, cbVars, inVars, sendVars, now, foVars>>
    /\ UNCHANGED <<tpVars, fnVars, sysVars>>

\* A second passes on the clock of datetime('now')
Tick ==
    /\ now < MaxClock
    /\ now' = now + 1
    /\ emitted' = <<>>
    /\ UNCHANGED <<connected, trustPolicy, resolverKey, cbVars, inVars, sendVars, extVars,
                   apiError, foVars>>

\* Agent.block(pattern)
Block(pattern) ==
    /\ connected
    /\ blockedPatterns' = blockedPatterns \cup {pattern}
    /\ blockedExact' = cacheExact(blockedExact, pattern)
    /\ blockedDomains' = cacheDomains(blockedDomains, pattern)
    /\ emitted' = <<>>
    /\ UNCHANGED <<connected, trustPolicy, resolverKey, contacts, knownAddresses, pending,
                   inVars, sendVars>>
    /\ UNCHANGED <<now, apiError, foVars, extVars>>

\* Agent.unblock(pattern)
Unblock(pattern) ==
    /\ connected
    /\ blockedPatterns' = blockedPatterns \ {pattern}
    /\ blockedExact' = uncacheExact(blockedExact, pattern)
    /\ blockedDomains' = uncacheDomains(blockedDomains, pattern)
    /\ emitted' = <<>>
    /\ UNCHANGED <<connected, trustPolicy, resolverKey, contacts, knownAddresses, pending,
                   inVars, sendVars>>
    /\ UNCHANGED <<now, apiError, foVars, extVars>>

\* Seven days pass for a pending handshake
PendingExpires(address) ==
    /\ pending[address] # NoPending
    /\ ~pending[address].expired
    /\ pending' = [pending EXCEPT ![address].expired = TRUE]
    /\ emitted' = <<>>
    /\ UNCHANGED <<connected, trustPolicy, resolverKey, contacts, knownAddresses,
                   blockedPatterns, blockedExact, blockedDomains, inVars, sendVars>>
    /\ UNCHANGED <<now, apiError, foVars, extVars>>

\* ------------------------------------------------------------ send path
\* What send(toAddress) finds when it is called: no contact ("fresh"), a pinned
\* contact whose key differs from the one the resolver now returns
\* ("pinned-mismatch"), or any other contact ("known")
caseOf(toAddress) ==
    IF getPublicKey(toAddress) = Null THEN "fresh"
    ELSE IF /\ getTrustState(toAddress) = "pinned"
            /\ resolverKey[toAddress] # NoKey
            /\ resolverKey[toAddress] # getPublicKey(toAddress)
         THEN "pinned-mismatch"
    ELSE "known"

\* Agent.send up to the first suspension of _resolvePublicKey: the contact book
\* answers, or the resolver is asked
SendStart(i, toAddress) ==
    /\ connected
    /\ sendPc[i] = "idle"
    /\ sendTo' = [sendTo EXCEPT ![i] = toAddress]
    /\ sendCase' = [sendCase EXCEPT ![i] = caseOf(toAddress)]
    /\ sendHs' = [sendHs EXCEPT ![i] = 0]
    /\ IF getPublicKey(toAddress) # Null
       THEN /\ sendVk' = [sendVk EXCEPT ![i] = getPublicKey(toAddress)]
            /\ sendPc' = [sendPc EXCEPT ![i] = "resolved"]
       ELSE /\ sendVk' = [sendVk EXCEPT ![i] = Null]
            /\ sendPc' = [sendPc EXCEPT ![i] = "resolving"]
    /\ emitted' = <<>>
    /\ UNCHANGED <<connected, trustPolicy, resolverKey, cbVars, inVars>>
    /\ UNCHANGED <<now, apiError, foVars, extVars>>

\* _resolvePublicKey after the resolver answered: cache as unverified, or fail
SendResolverReturns(i) ==
    /\ sendPc[i] = "resolving"
    /\ IF resolverKey[sendTo[i]] = NoKey
       THEN /\ sendPc' = [sendPc EXCEPT ![i] = "ResolutionError"]
            /\ UNCHANGED <<contacts, knownAddresses, sendVk>>
       ELSE /\ contacts' = addContact(contacts, sendTo[i], resolverKey[sendTo[i]],
                                      "unverified", Null)
            /\ knownAddresses' = knownAddresses \cup {sendTo[i]}
            /\ sendVk' = [sendVk EXCEPT ![i] = resolverKey[sendTo[i]]]
            /\ sendPc' = [sendPc EXCEPT ![i] = "resolved"]
    /\ emitted' = <<>>
    /\ UNCHANGED <<connected, trustPolicy, resolverKey, pending, blockedPatterns,
                   blockedExact, blockedDomains, inVars, sendTo, sendHs, sendCase>>
    /\ UNCHANGED <<now, apiError, foVars, extVars>>

\* send resumes with recipientVk: first contact check
SendCheckFirstContact(i) ==
    /\ sendPc[i] = "resolved"
    /\ sendPc' = [sendPc EXCEPT ![i] =
                    IF ~isKnown(sendTo[i]) THEN "handshake" ELSE "message"]
    /\ emitted' = <<>>
    /\ UNCHANGED <<connected, trustPolicy, resolverKey, cbVars, inVars,
                   sendTo, sendVk, sendHs, sendCase>>
    /\ UNCHANGED <<now, apiError, foVars, extVars>>

\* _initiateHandshake: transport.send of the HANDSHAKE_REQUEST returned (ok) or threw
SendHandshakeSent(i, ok) ==
    /\ sendPc[i] = "handshake"
    /\ IF ok
       THEN /\ emitted' = <<Env("handshake.request", sendTo[i])>>
            /\ sendHs' = [sendHs EXCEPT ![i] = @ + 1]
            /\ contacts' = addContact(contacts, sendTo[i], sendVk[i], "handshake-sent", Null)
            /\ knownAddresses' = knownAddresses \cup {sendTo[i]}
            /\ sendPc' = [sendPc EXCEPT ![i] = "message"]
       ELSE /\ emitted' = <<>>
            /\ sendPc' = [sendPc EXCEPT ![i] = "TransportError"]
            /\ UNCHANGED <<contacts, knownAddresses, sendHs>>
    /\ UNCHANGED <<connected, trustPolicy, resolverKey, pending, blockedPatterns,
                   blockedExact, blockedDomains, inVars, sendTo, sendVk, sendCase>>
    /\ UNCHANGED <<now, apiError, foVars, extVars>>

\* createEnvelope(MESSAGE) and its transport.send returned (ok) or threw
SendMessageSent(i, ok) ==
    /\ sendPc[i] = "message"
    /\ emitted' = IF ok THEN <<Env("message", sendTo[i])>> ELSE <<>>
    /\ sendPc' = [sendPc EXCEPT ![i] = IF ok THEN "done" ELSE "TransportError"]
    /\ UNCHANGED <<connected, trustPolicy, resolverKey, cbVars, inVars,
                   sendTo, sendVk, sendHs, sendCase>>
    /\ UNCHANGED <<now, apiError, foVars, extVars>>

\* send returned the message_id, or its error reached the caller
SendReturn(i) ==
    /\ sendPc[i] \in {"done", "ResolutionError", "TransportError"}
    /\ sendPc' = [sendPc EXCEPT ![i] = "idle"]
    /\ sendTo' = [sendTo EXCEPT ![i] = Null]
    /\ sendVk' = [sendVk EXCEPT ![i] = Null]
    /\ sendHs' = [sendHs EXCEPT ![i] = 0]
    /\ sendCase' = [sendCase EXCEPT ![i] = Null]
    /\ emitted' = <<>>
    /\ UNCHANGED <<connected, trustPolicy, resolverKey, cbVars, inVars>>
    /\ UNCHANGED <<now, apiError, foVars, extVars>>

\* ContactBook.removeContact(address)
RemoveContact(address) ==
    /\ connected
    /\ contacts[address] # NoContact
    /\ contacts' = [contacts EXCEPT ![address] = NoContact]
    /\ knownAddresses' = knownAddresses \ {address}
    /\ emitted' = <<>>
    /\ UNCHANGED <<connected, trustPolicy, resolverKey, pending, blockedPatterns,
                   blockedExact, blockedDomains, inVars, sendVars>>
    /\ UNCHANGED <<now, apiError, foVars, extVars>>

\* A contact book left by an earlier session: no row, or a row pinned by
\* _handleAccept; the resolver answers k1, k2 or fails for each address.
PinnedRow(k) == [public_key |-> k, trust_state |-> "pinned", trust_source |-> Null,
                 pinned_at |-> Stamp(0)]
InitSend ==
    /\ connected = FALSE
    /\ trustPolicy = "auto-accept"
    /\ resolverKey \in [Addr -> Keys \cup {NoKey}]
    /\ contacts \in [Addr -> {NoContact} \cup {PinnedRow(k) : k \in Keys}]
    /\ knownAddresses = {}
    /\ pending = [a \in Addr |-> NoPending]
    /\ blockedPatterns = {}
    /\ blockedExact = {}
    /\ blockedDomains = {}
    /\ emitted = <<>>
    /\ inPc = "idle"
    /\ inRemaining = 0
    /\ inExit = Null
    /\ inResult = <<>>
    /\ sendPc = [i \in Senders |-> "idle"]
    /\ sendTo = [i \in Senders |-> Null]
    /\ sendVk = [i \in Senders |-> Null]
    /\ sendHs = [i \in Senders |-> 0]
    /\ sendCase = [i \in Senders |-> Null]
    /\ now = 0
    /\ apiError = Null
    /\ relayUrls = <<>>
    /\ foPc = "idle"
    /\ foPosted = <<>>
    /\ foAccepted = <<>>
    /\ lastError = NoError
    /\ agent = NewAgent(FALSE, TRUE)
    /\ wsOnMessage = FALSE
    /\ wsPending = <<>>
    /\ wsArrived = <<>>
    /\ wsDispatched = <<>>
    /\ wsReceived = <<>>
    /\ wsResult = <<>>
    /\ IdleSystems
    /\ fnPc = "idle"
    /\ fnArgs = <<>>
    /\ fnResult = <<>>

NextSend ==
    \/ Connect
    \/ \E i \in Senders, a \in Addr : SendStart(i, a)
    \/ \E i \in Senders : SendResolverReturns(i)
    \/ \E i \in Senders : SendCheckFirstContact(i)
    \/ \E i \in Senders, ok \in BOOLEAN : SendHandshakeSent(i, ok)
    \/ \E i \in Senders, ok \in BOOLEAN : SendMessageSent(i, ok)
    \/ \E i \in Senders : SendReturn(i)
    \/ \E a \in Addr : RemoveContact(a)

SpecSend == InitSend /\ [][NextSend]_vars

\* inbox polls with approve/deny calls between their steps
NextInbox ==
    \/ Connect
    \/ InboxStart
    \/ InboxProcess
    \/ InboxReturn
    \/ \E a \in Addr : Approve(a)
    \/ \E a \in Addr : Deny(a)

SpecInbox == Init /\ [][NextInbox]_vars

\* inbox polls with block/unblock calls between their steps
NextBlock ==
    \/ Connect
    \/ InboxStart
    \/ InboxProcess
    \/ InboxReturn
    \/ \E p \in BlockInputs : Block(p)
    \/ \E p \in BlockInputs : Unblock(p)

SpecBlock == Init /\ [][NextBlock]_vars

\* The wire dicts of one handshake type
HandshakeEnvelopes(type) ==
    {raw \in RawEnvelopes : ~raw.missing /\ raw.type = type}

InboxRequest ==
    \E raw \in HandshakeEnvelopes("handshake.request") :
        \E ok \in TransportOutcomes(raw) : InboxProcessOn(raw, ok)

InboxAccept ==
    \E raw \in HandshakeEnvelopes("handshake.accept") :
        \E ok \in TransportOutcomes(raw) : InboxProcessOn(raw, ok)

\* The pending queue: polls that deliver handshake requests, approve/deny
\* calls, expiry of pending entries, close and reconnect
NextPending ==
    \/ Connect
    \/ Close
    \/ InboxStart
    \/ InboxRequest
    \/ InboxReturn
    \/ \E a \in Addr : Approve(a)
    \/ \E a \in Addr : Deny(a)
    \/ \E a \in Addr : ApproveMissing(a)
    \/ \E a \in Addr : DenyMissing(a)
    \/ \E a \in Addr : PendingExpires(a)

SpecPending == Init /\ [][NextPending]_vars

\* Key pinning over time: polls that deliver handshake requests and accepts,
\* approve calls, and the clock
NextPinning ==
    \/ Connect
    \/ InboxStart
    \/ InboxRequest
    \/ InboxAccept
    \/ InboxReturn
    \/ \E a \in Addr : Approve(a)
    \/ Tick

SpecPinning == Init /\ [][NextPinning]_vars

\* ------------------------------------------------------------ relay delivery
\* Relay URLs as the contact book stores them: scheme, host, trailing /ws or not
RelayUrl == [scheme : {"wss", "https"}, host : {"h1", "h2"}, ws : BOOLEAN]

\* config.relayUrl
ownRelayUrl == [scheme |-> "wss", host |-> "h1", ws |-> TRUE]

\* Agent._getRelayUrls: the contact's list, [config.relayUrl] when it has none
RelayLists == UNION {[1..n -> RelayUrl] : n \in 0..MaxRelays}

\* The endpoint _trySendWithFailover posts to for a relay URL: trailing /ws
\* stripped, wss:// turned into https://, /api/v1/send appended
sendUrl(url) == [scheme |-> IF url.scheme = "wss" THEN "https" ELSE url.scheme,
                 host |-> url.host, path |-> "/api/v1/send"]

\* The branch of send that posts over HTTP instead of using the agent's transport
usesFailover(urls) == urls # <<ownRelayUrl>> /\ Len(urls) > 0

\* A for..of that walks the list from its end
relayAt_Reversed(urls, n) == urls[Len(urls) + 1 - n]

\* for (const url of relayUrls): the n-th URL tried
relayAt(urls, n) == urls[n]

\* What a POST to a relay comes back with: resp.ok, a non-2xx status, fetch throwing
PostOutcomes == {"ok", "HTTP", "fetch"}

\* Agent.send from _getRelayUrls on: choice of the delivery branch
SendSelectRelay ==
    /\ connected
    /\ foPc \in {"idle", "returned", "raised"}
    /\ \E urls \in RelayLists :
          /\ relayUrls' = urls
          /\ foPc' = IF usesFailover(urls) THEN "failover" ELSE "own"
    /\ foPosted' = <<>>
    /\ foAccepted' = <<>>
    /\ lastError' = NoError
    /\ emitted' = <<>>
    /\ UNCHANGED <<connected, trustPolicy, resolverKey, cbVars, inVars, sendVars, extVars, now, apiError>>

\* this._transport.send(wire) on the agent's own relay connection
SendOwnTransport ==
    /\ foPc = "own"
    /\ \E ok \in BOOLEAN :
          /\ foPc' = IF ok THEN "returned" ELSE "raised"
          /\ lastError' = IF ok THEN NoError ELSE [url |-> ownRelayUrl, error |-> "transport"]
    /\ emitted' = <<>>
    /\ UNCHANGED <<connected, trustPolicy, resolverKey, cbVars, inVars, sendVars, extVars, now, apiError,
                   relayUrls, foPosted, foAccepted>>

\* One iteration of the loop of _trySendWithFailover
FailoverPost ==
    /\ foPc = "failover"
    /\ Len(foPosted) < Len(relayUrls)
    /\ LET url == relayAt(relayUrls, Len(foPosted) + 1) IN
        /\ foPosted' = Append(foPosted, sendUrl(url))
        /\ \E outcome \in PostOutcomes :
              IF outcome = "ok"
              THEN /\ foAccepted' = Append(foAccepted, sendUrl(url))
                   /\ foPc' = "returned"
                   /\ lastError' = lastError
              ELSE /\ foAccepted' = foAccepted
                   /\ foPc' = "failover"
                   /\ lastError' = [url |-> url, error |-> outcome]
    /\ emitted' = <<>>
    /\ UNCHANGED <<connected, trustPolicy, resolverKey, cbVars, inVars, sendVars, extVars, now, apiError,
                   relayUrls>>

\* _trySendWithFailover after the loop: throw lastError
FailoverExhausted ==
    /\ foPc = "failover"
    /\ Len(foPosted) = Len(relayUrls)
    /\ foPc' = "raised"
    /\ lastError' = IF lastError # NoError THEN lastError
                    ELSE [url |-> ownRelayUrl, error |-> "No relay URLs to try"]
    /\ emitted' = <<>>
    /\ UNCHANGED <<connected, trustPolicy, resolverKey, cbVars, inVars, sendVars, extVars, now, apiError,
                   relayUrls, foPosted, foAccepted>>

NextFailover ==
    \/ Connect
    \/ SendSelectRelay
    \/ SendOwnTransport
    \/ FailoverPost
    \/ FailoverExhausted

SpecFailover == Init /\ [][NextFailover]_vars

\* The agent's life: first connect with or without a stored token, repeated
\* connect and close calls, polls in between that fill the contact book
InitLifecycle ==
    /\ connected = FALSE
    /\ trustPolicy \in Policies
    /\ resolverKey = [a \in Addr |-> IF a[1] = "alice" THEN "k1" ELSE "k2"]
    /\ contacts = [a \in Addr |-> NoContact]
    /\ knownAddresses = {}
    /\ pending = [a \in Addr |-> NoPending]
    /\ blockedPatterns = {}
    /\ blockedExact = {}
    /\ blockedDomains = {}
    /\ emitted = <<>>
    /\ inPc = "idle"
    /\ inRemaining = 0
    /\ inExit = Null
    /\ inResult = <<>>
    /\ sendPc = [i \in Senders |-> "idle"]
    /\ sendTo = [i \in Senders |-> Null]
    /\ sendVk = [i \in Senders |-> Null]
    /\ sendHs = [i \in Senders |-> 0]
    /\ sendCase = [i \in Senders |-> Null]
    /\ now = 0
    /\ apiError = Null
    /\ relayUrls = <<>>
    /\ foPc = "idle"
    /\ foPosted = <<>>
    /\ foAccepted = <<>>
    /\ lastError = NoError
    /\ agent \in Agents
    /\ wsOnMessage = FALSE
    /\ wsPending = <<>>
    /\ wsArrived = <<>>
    /\ wsDispatched = <<>>
    /\ wsReceived = <<>>
    /\ wsResult = <<>>
    /\ IdleSystems
    /\ fnPc = "idle"
    /\ fnArgs = <<>>
    /\ fnResult = <<>>

NextLifecycle ==
    \/ Connect
    \/ ConnectAgain
    \/ ConnectFails
    \/ Close
    \/ CloseAgain
    \/ InboxStart
    \/ InboxRequest
    \/ InboxReturn

SpecLifecycle == InitLifecycle /\ [][NextLifecycle]_vars

\* ------------------------------------------------------------ push transport
\* What a parsed frame looks like to _handleMessage: its type field, whether it
\* has an error key, whether it has a uam_version key
FrameShapes ==
    {[type |-> "message", error |-> FALSE, version |-> TRUE],
     [type |-> "handshake.request", error |-> FALSE, version |-> TRUE],
     [type |-> "ping", error |-> FALSE, version |-> FALSE],
     [type |-> "ack", error |-> FALSE, version |-> FALSE],
     [type |-> "error", error |-> FALSE, version |-> FALSE],
     [type |-> "rejected", error |-> TRUE, version |-> FALSE],
     [type |-> "message", error |-> TRUE, version |-> TRUE],
     [type |-> "hello", error |-> FALSE, version |-> FALSE]}

\* The n-th frame to arrive
Frame(n, shape) == [id |-> n, type |-> shape.type, error |-> shape.error, version |-> shape.version]

\* _handleMessage that buffers whatever is not a ping
handleMessageBranch_BufferAll(msg) ==
    IF msg.type = "ping" THEN "pong" ELSE "envelope"

\* The branch _handleMessage takes
handleMessageBranch(msg) ==
    IF msg.type = "ping" THEN "pong"
    ELSE IF msg.type = "ack" THEN "ignore"
    ELSE IF msg.type = "error" \/ msg.error THEN "ignore"
    ELSE IF msg.version THEN "envelope"
    ELSE "ignore"

\* Array.prototype.slice(0, limit) and slice(limit) for limit >= 0
sliceHead(seq, limit) == SubSeq(seq, 1, IF limit < Len(seq) THEN limit ELSE Len(seq))
sliceTail(seq, limit) == SubSeq(seq, limit + 1, Len(seq))

\* The transport as its constructor leaves it, with or without an onMessage
InitPush ==
    /\ connected = FALSE
    /\ trustPolicy = "auto-accept"
    /\ resolverKey = [a \in Addr |-> IF a[1] = "alice" THEN "k1" ELSE "k2"]
    /\ contacts = [a \in Addr |-> NoContact]
    /\ knownAddresses = {}
    /\ pending = [a \in Addr |-> NoPending]
    /\ blockedPatterns = {}
    /\ blockedExact = {}
    /\ blockedDomains = {}
    /\ emitted = <<>>
    /\ inPc = "idle"
    /\ inRemaining = 0
    /\ inExit = Null
    /\ inResult = <<>>
    /\ sendPc = [i \in Senders |-> "idle"]
    /\ sendTo = [i \in Senders |-> Null]
    /\ sendVk = [i \in Senders |-> Null]
    /\ sendHs = [i \in Senders |-> 0]
    /\ sendCase = [i \in Senders |-> Null]
    /\ now = 0
    /\ apiError = Null
    /\ relayUrls = <<>>
    /\ foPc = "idle"
    /\ foPosted = <<>>
    /\ foAccepted = <<>>
    /\ lastError = NoError
    /\ agent = NewAgent(FALSE, TRUE)
    /\ wsOnMessage \in BOOLEAN
    /\ wsPending = <<>>
    /\ wsArrived = <<>>
    /\ wsDispatched = <<>>
    /\ wsReceived = <<>>
    /\ wsResult = <<>>
    /\ IdleSystems
    /\ fnPc = "idle"
    /\ fnArgs = <<>>
    /\ fnResult = <<>>

\* ws.on("message"): a frame arrives and _handleMessage runs
WsMessage ==
    /\ Len(wsArrived) < MaxFrames
    /\ \E shape \in FrameShapes :
          LET msg == Frame(Len(wsArrived) + 1, shape)
              branch == handleMessageBranch(msg) IN
          /\ wsArrived' = Append(wsArrived, msg)
          /\ wsDispatched' = IF branch = "envelope" /\ wsOnMessage
                             THEN Append(wsDispatched, msg) ELSE wsDispatched
          /\ wsPending' = IF branch = "envelope" /\ ~wsOnMessage
                          THEN Append(wsPending, msg) ELSE wsPending
          /\ emitted' = IF branch = "pong" THEN <<Env("pong", "relay")>> ELSE <<>>
    /\ UNCHANGED <<wsOnMessage, wsReceived, wsResult>>
    /\ UNCHANGED <<connected, trustPolicy, resolverKey, cbVars, inVars, sendVars,
                   now, apiError, foVars, lcVars, fnVars, sysVars>>

\* WebSocketTransport.listen(callback)
WsListen ==
    /\ ~wsOnMessage
    /\ wsOnMessage' = TRUE
    /\ emitted' = <<>>
    /\ UNCHANGED <<wsPending, wsArrived, wsDispatched, wsReceived, wsResult>>
    /\ UNCHANGED <<connected, trustPolicy, resolverKey, cbVars, inVars, sendVars,
                   now, apiError, foVars, lcVars, fnVars, sysVars>>

\* WebSocketTransport.receive(limit)
WsReceive(limit) ==
    /\ wsResult' = sliceHead(wsPending, limit)
    /\ wsPending' = sliceTail(wsPending, limit)
    /\ wsReceived' = wsReceived \o sliceHead(wsPending, limit)
    /\ emitted' = <<>>
    /\ UNCHANGED <<wsOnMessage, wsArrived, wsDispatched>>
    /\ UNCHANGED <<connected, trustPolicy, resolverKey, cbVars, inVars, sendVars,
                   now, apiError, foVars, lcVars, fnVars, sysVars>>

NextPush ==
    \/ WsMessage
    \/ WsListen
    \/ \E limit \in 0..MaxLimit : WsReceive(limit)

SpecPush == InitPush /\ [][NextPush]_vars

\* ------------------------------------------------------------ canonical JSON
\* Strings are sequences of UTF-16 code units; a JSON value is a tagged record;
\* an object is the sequence of its [key, value] entries in insertion order
CodeA == 97
CodeB == 98
CodeQuote == 34
CodeBackslash == 92
CodeEAcute == 233
CodeEuro == 8364

\* "signature"
SignatureKey == <<115, 105, 103, 110, 97, 116, 117, 114, 101>>

JNull == [t |-> "null"]
Undefined == [t |-> "undefined"]
JNum(n) == [t |-> "num", v |-> n]
JStr(str) == [t |-> "str", v |-> str]
JArr(items) == [t |-> "arr", v |-> items]
JObj(entries) == [t |-> "obj", v |-> entries]

\* The elements of a sequence joined by a separator
RECURSIVE Join(_, _)
Join(parts, sep) ==
    IF parts = <<>> THEN <<>>
    ELSE IF Len(parts) = 1 THEN parts[1]
    ELSE LET half == Len(parts) \div 2 IN
         Join(SubSeq(parts, 1, half), sep) \o sep \o Join(SubSeq(parts, half + 1, Len(parts)), sep)

\* String comparison of Array.prototype.sort: by code units, a proper prefix first
RECURSIVE LexLess(_, _)
LexLess(x, y) ==
    IF y = <<>> THEN FALSE
    ELSE IF x = <<>> THEN TRUE
    ELSE IF x[1] # y[1] THEN x[1] < y[1]
    ELSE LexLess(Tail(x), Tail(y))

\* Object.keys(obj).sort()
RECURSIVE SortKeys(_)
SortKeys(keys) ==
    IF keys = {} THEN <<>>
    ELSE LET least == CHOOSE k \in keys : \A other \in keys \ {k} : LexLess(k, other)
         IN <<least>> \o SortKeys(keys \ {least})

objectKeys(entries) == {entries[n][1] : n \in DOMAIN entries}
objectGet(entries, key) == entries[CHOOSE n \in DOMAIN entries : entries[n][1] = key][2]

HexDigit(d) == IF d < 10 THEN 48 + d ELSE 87 + d

\* \uXXXX
UnicodeEscape(c) ==
    <<CodeBackslash, 117, HexDigit(c \div 4096), HexDigit((c \div 256) % 16),
      HexDigit((c \div 16) % 16), HexDigit(c % 16)>>

\* JSON.stringify of one code unit of a string: quote, backslash and control
\* characters are escaped, everything else is copied
jsonQuoteUnit(c) ==
    IF c = CodeQuote THEN <<CodeBackslash, CodeQuote>>
    ELSE IF c = CodeBackslash THEN <<CodeBackslash, CodeBackslash>>
    ELSE IF c < 32 THEN UnicodeEscape(c)
    ELSE <<c>>

\* JSON.stringify(string)
jsonQuote(str) ==
    <<CodeQuote>> \o Join([n \in DOMAIN str |-> jsonQuoteUnit(str[n])], <<>>) \o <<CodeQuote>>

\* sortedStringify that keeps the insertion order of the keys
RECURSIVE sortedStringify_Unsorted(_)
sortedStringify_Unsorted(value) ==
    IF value.t \in {"null", "undefined"} THEN <<110, 117, 108, 108>>
    ELSE IF value.t = "str" THEN jsonQuote(value.v)
    ELSE IF value.t = "num" THEN <<48 + value.v>>
    ELSE IF value.t = "arr" THEN
        <<91>> \o Join([n \in DOMAIN value.v |-> sortedStringify_Unsorted(value.v[n])], <<44>>) \o <<93>>
    ELSE
        <<123>> \o Join([n \in DOMAIN value.v |->
                            jsonQuote(value.v[n][1]) \o <<58>> \o sortedStringify_Unsorted(value.v[n][2])],
                        <<44>>) \o <<125>>

\* sortedStringify
RECURSIVE sortedStringify(_)
sortedStringify(value) ==
    IF value.t \in {"null", "undefined"} THEN <<110, 117, 108, 108>>
    ELSE IF value.t = "str" THEN jsonQuote(value.v)
    ELSE IF value.t = "num" THEN <<48 + value.v>>
    ELSE IF value.t = "arr" THEN
        <<91>> \o Join([n \in DOMAIN value.v |-> sortedStringify(value.v[n])], <<44>>) \o <<93>>
    ELSE LET keys == SortKeys(objectKeys(value.v)) IN
        <<123>> \o Join([n \in DOMAIN keys |->
                            jsonQuote(keys[n]) \o <<58>> \o sortedStringify(objectGet(value.v, keys[n]))],
                        <<44>>) \o <<125>>

\* TextEncoder.encode of one code unit (no surrogates): UTF-8
utf8Unit(c) ==
    IF c < 128 THEN <<c>>
    ELSE IF c < 2048 THEN <<192 + (c \div 64), 128 + (c % 64)>>
    ELSE <<224 + (c \div 4096), 128 + ((c \div 64) % 64), 128 + (c % 64)>>

utf8Encode(str) == Join([n \in DOMAIN str |-> utf8Unit(str[n])], <<>>)

\* The entries canonicalize keeps: not the signature key, not a null or
\* undefined value
canonicalFilter(entries) ==
    SelectSeq(entries, LAMBDA e : e[1] # SignatureKey /\ e[2] # JNull /\ e[2] # Undefined)

\* canonicalize
canonicalize(entries) == utf8Encode(sortedStringify(JObj(canonicalFilter(entries))))

\* Injective sequences over a set of keys: the orders the keys can be inserted in
KeyOrders(keys) ==
    {order \in [1..Cardinality(keys) -> keys] :
        \A n, m \in 1..Cardinality(keys) : order[n] = order[m] => n = m}

CanonKeys == {<<CodeA>>, <<CodeEAcute>>, SignatureKey}

\* Nested values and, for an object, the same object with its keys inserted in
\* another order
NestedObject == JObj(<<<<<<CodeB>>, JNum(2)>>, <<<<CodeA>>, JNum(1)>>>>)
NestedObjectReordered == JObj(<<<<<<CodeA>>, JNum(1)>>, <<<<CodeB>>, JNum(2)>>>>)

CanonValues ==
    {JNull, JNum(1), JStr(<<CodeQuote, CodeEuro>>), JArr(<<JNum(1), JNull>>), NestedObject}

\* A map, and the same map with the keys of every level inserted in another order
CanonInputs ==
    UNION {UNION {{[map |-> [n \in 1..Cardinality(keys) |-> <<o1[n], f[o1[n]]>>],
                    shuffled |-> [n \in 1..Cardinality(keys) |-> <<o2[n], g[o2[n]]>>]]
                      : o1 \in KeyOrders(keys), o2 \in KeyOrders(keys),
                        g \in {[k \in keys |-> IF k \in flips /\ f[k] = NestedObject
                                               THEN NestedObjectReordered ELSE f[k]]
                                  : flips \in SUBSET keys}}
                  : f \in [keys -> CanonValues]}
           : keys \in {ks \in SUBSET CanonKeys : Cardinality(ks) <= MaxKeys}}

\* Every variable outside the pure-function calls, as the constructors leave them
AgentAsConstructed ==
    /\ connected = FALSE
    /\ trustPolicy = "auto-accept"
    /\ resolverKey = [a \in Addr |-> IF a[1] = "alice" THEN "k1" ELSE "k2"]
    /\ contacts = [a \in Addr |-> NoContact]
    /\ knownAddresses = {}
    /\ pending = [a \in Addr |-> NoPending]
    /\ blockedPatterns = {}
    /\ blockedExact = {}
    /\ blockedDomains = {}
    /\ emitted = <<>>
    /\ inPc = "idle"
    /\ inRemaining = 0
    /\ inExit = Null
    /\ inResult = <<>>
    /\ sendPc = [i \in Senders |-> "idle"]
    /\ sendTo = [i \in Senders |-> Null]
    /\ sendVk = [i \in Senders |-> Null]
    /\ sendHs = [i \in Senders |-> 0]
    /\ sendCase = [i \in Senders |-> Null]
    /\ now = 0
    /\ apiError = Null
    /\ relayUrls = <<>>
    /\ foPc = "idle"
    /\ foPosted = <<>>
    /\ foAccepted = <<>>
    /\ lastError = NoError
    /\ agent = NewAgent(FALSE, TRUE)
    /\ wsOnMessage = FALSE
    /\ wsPending = <<>>
    /\ wsArrived = <<>>
    /\ wsDispatched = <<>>
    /\ wsReceived = <<>>
    /\ wsResult = <<>>

IdleAgent ==
    /\ AgentAsConstructed
    /\ IdleSystems

otherVars == <<connected, trustPolicy, resolverKey, cbVars, inVars, sendVars, emitted,
               now, apiError, foVars, lcVars, tpVars, sysVars>>
otherVarsButChain == <<connected, trustPolicy, resolverKey, cbVars, inVars, sendVars, emitted,
                       now, apiError, foVars, lcVars, tpVars, transports, tier3Resolver>>

InitCanon ==
    /\ IdleAgent
    /\ fnPc = "map"
    /\ fnArgs \in CanonInputs
    /\ fnResult = <<>>

\* canonicalize(map)
CanonicalizeMap ==
    /\ fnPc = "map"
    /\ fnResult' = <<canonicalize(fnArgs.map)>>
    /\ fnPc' = "shuffled"
    /\ UNCHANGED <<fnArgs, otherVars>>

\* canonicalize(shuffled)
CanonicalizeShuffled ==
    /\ fnPc = "shuffled"
    /\ fnResult' = Append(fnResult, canonicalize(fnArgs.shuffled))
    /\ fnPc' = "done"
    /\ UNCHANGED <<fnArgs, otherVars>>

NextCanon ==
    \/ CanonicalizeMap
    \/ CanonicalizeShuffled

SpecCanon == InitCanon /\ [][NextCanon]_vars

\* ------------------------------------------------------------ address
MAX_AGENT_LEN == 64
MAX_ADDRESS_LEN == 128

\* The code units String.prototype.trim removes
WhiteSpace ==
    {9, 10, 11, 12, 13, 32, 160, 5760, 8232, 8233, 8239, 8287, 12288, 65279} \cup 8192..8202

\* raw.trim()
trim(str) ==
    LET kept == {n \in DOMAIN str : str[n] \notin WhiteSpace} IN
    IF kept = {} THEN <<>>
    ELSE SubSeq(str, CHOOSE n \in kept : \A m \in kept : n <= m,
                     CHOOSE n \in kept : \A m \in kept : m <= n)

\* toLowerCase of one code unit: A-Z, and the two characters outside ASCII whose
\* lower case reaches it (KELVIN SIGN gives k, capital I with dot gives i and a
\* combining dot)
lowerUnit(c) ==
    IF c \in 65..90 THEN <<c + 32>>
    ELSE IF c = 8490 THEN <<107>>
    ELSE IF c = 304 THEN <<105, 775>>
    ELSE <<c>>

\* str.toLowerCase()
toLowerCase(str) == Join([n \in DOMAIN str |-> lowerUnit(str[n])], <<>>)

\* The character classes of ADDRESS_RE
IsAlnum(c) == c \in 97..122 \/ c \in 48..57
IsAgentChar(c) == IsAlnum(c) \/ c = 95 \/ c = 45
IsDomainChar(c) == IsAlnum(c) \/ c = 46 \/ c = 45

\* an agent pattern that lets the name end in a hyphen or underscore
matchAgent_AnyEnd(str) ==
    /\ Len(str) \in 1..64
    /\ IsAlnum(str[1])
    /\ \A n \in 2..Len(str) : IsAgentChar(str[n])

\* [a-z0-9][a-z0-9_-]{0,62}[a-z0-9]|[a-z0-9] against a whole string
matchAgent(str) ==
    \/ /\ Len(str) >= 2
       /\ Len(str) - 2 <= 62
       /\ IsAlnum(str[1])
       /\ \A n \in 2..(Len(str) - 1) : IsAgentChar(str[n])
       /\ IsAlnum(str[Len(str)])
    \/ /\ Len(str) = 1
       /\ IsAlnum(str[1])

\* [a-z0-9](?:[a-z0-9.-]{0,253}[a-z0-9])? against a whole string
matchDomain(str) ==
    /\ Len(str) >= 1
    /\ IsAlnum(str[1])
    /\ \/ Len(str) = 1
       \/ /\ Len(str) - 2 <= 253
          /\ \A n \in 2..(Len(str) - 1) : IsDomainChar(str[n])
          /\ IsAlnum(str[Len(str)])

\* What exec returns when the string does not match
NoMatch == [absent |-> TRUE]

\* ADDRESS_RE.exec(normalized): no class of the agent group holds a colon, so
\* the agent group ends at the first colon; the groups, or null
execAddress(normalized) ==
    LET colons == {n \in DOMAIN normalized : normalized[n] = 58} IN
    IF colons = {} THEN NoMatch
    ELSE LET first == CHOOSE n \in colons : \A m \in colons : n <= m
             agentGroup == SubSeq(normalized, 1, first - 1)
             domainGroup == SubSeq(normalized, first + 2, Len(normalized))
         IN IF /\ first + 1 <= Len(normalized)
               /\ normalized[first + 1] = 58
               /\ matchAgent(agentGroup)
               /\ matchDomain(domainGroup)
            THEN [agent |-> agentGroup, domain |-> domainGroup]
            ELSE NoMatch

\* parseAddress: the address, or InvalidAddressError
parseAddress(raw) ==
    LET normalized == toLowerCase(trim(raw)) IN
    IF Len(normalized) > MAX_ADDRESS_LEN THEN [error |-> "InvalidAddressError"]
    ELSE LET m == execAddress(normalized) IN
         IF m = NoMatch THEN [error |-> "InvalidAddressError"]
         ELSE IF Len(m.agent) > MAX_AGENT_LEN THEN [error |-> "InvalidAddressError"]
         ELSE m

\* The full getter of an Address
fullAddress(address) == address.agent \o <<58, 58>> \o address.domain

\* n copies of a code unit
Repeat(c, n) == [k \in 1..n |-> c]

\* Strings put together from a first character, a run of one character and a
\* last character, around the length limits
AgentParts ==
    {head \o Repeat(mid, n) \o tail :
        head \in {<<>>, <<97>>, <<65>>, <<45>>}, mid \in {95, 46},
        n \in {0, MAX_AGENT_LEN - 2, MAX_AGENT_LEN - 1}, tail \in {<<>>, <<48>>, <<45>>}}

DomainParts ==
    {head \o Repeat(mid, n) \o tail :
        head \in {<<97>>, <<45>>}, mid \in {46, 95},
        n \in {0, MAX_ADDRESS_LEN - MAX_AGENT_LEN - 4, MAX_ADDRESS_LEN - MAX_AGENT_LEN - 3,
               MAX_ADDRESS_LEN - 5, MAX_ADDRESS_LEN - 4},
        tail \in {<<>>, <<122>>, <<8490>>, <<304>>}}

RawAddresses ==
    {pad \o agentPart \o sep \o domainPart \o pad :
        pad \in {<<>>, <<32, 10>>}, agentPart \in AgentParts,
        sep \in {<<58, 58>>, <<58>>}, domainPart \in DomainParts}

InitAddress ==
    /\ IdleAgent
    /\ fnPc = "parse"
    /\ fnArgs \in RawAddresses
    /\ fnResult = <<>>

\* parseAddress(raw)
ParseAddress ==
    /\ fnPc = "parse"
    /\ fnResult' = <<parseAddress(fnArgs)>>
    /\ fnPc' = "parsed"
    /\ UNCHANGED <<fnArgs, otherVars>>

\* parseAddress(address.full) of the address just returned
ParseFull ==
    /\ fnPc = "parsed"
    /\ "error" \notin DOMAIN fnResult[1]
    /\ fnResult' = Append(fnResult, parseAddress(fullAddress(fnResult[1])))
    /\ fnPc' = "reparsed"
    /\ UNCHANGED <<fnArgs, otherVars>>

NextAddress ==
    \/ ParseAddress
    \/ ParseFull

SpecAddress == InitAddress /\ [][NextAddress]_vars

\* ------------------------------------------------------------ SmartResolver
\* domain.includes(".")
includesDot(domain) == \E n \in DOMAIN domain : domain[n] = 46

\* routing that looks for a dot before it compares with the relay domain
smartRoute_DotFirst(relayDomain, tier3, domain) ==
    IF includesDot(domain) THEN "tier2"
    ELSE IF domain = relayDomain THEN "tier1"
    ELSE IF ~tier3 THEN "none"
    ELSE "tier3"

\* The tier SmartResolver.resolvePublicKey hands a parsed domain to, or none
smartRoute(relayDomain, tier3, domain) ==
    IF domain = relayDomain THEN "tier1"
    ELSE IF includesDot(domain) THEN "tier2"
    ELSE IF ~tier3 THEN "none"
    ELSE "tier3"

\* Relay domains a SmartResolver is constructed with: r, r.r, x.y and, as
\* written by the operator, R
RelayDomains == {<<114>>, <<114, 46, 114>>, <<120, 46, 121>>, <<82>>}

\* Addresses handed to resolvePublicKey: a::r, A::R, a::r.r, a::x, a::x.y,
\* " a::X.Y", and two that do not parse, a:r and a::r.
ResolverAddresses ==
    {<<97, 58, 58, 114>>, <<65, 58, 58, 82>>, <<97, 58, 58, 114, 46, 114>>,
     <<97, 58, 58, 120>>, <<97, 58, 58, 120, 46, 121>>, <<32, 97, 58, 58, 88, 46, 89>>,
     <<97, 58, 114>>, <<97, 58, 58, 114, 46>>}

InitResolver ==
    /\ IdleAgent
    /\ fnPc = "resolve"
    /\ fnArgs \in [relayDomain : RelayDomains, tier3 : BOOLEAN, address : ResolverAddresses]
    /\ fnResult = <<>>

\* SmartResolver.resolvePublicKey(address, token, relayUrl): the address is
\* parsed, one tier is asked, and that tier returns a key or throws
ResolvePublicKey ==
    /\ fnPc = "resolve"
    /\ LET parsed == parseAddress(fnArgs.address) IN
       IF "error" \in DOMAIN parsed
       THEN fnResult' = [queried |-> <<>>, outcome |-> "InvalidAddressError"]
       ELSE LET tier == smartRoute(fnArgs.relayDomain, fnArgs.tier3, parsed.domain) IN
            IF tier = "none"
            THEN fnResult' = [queried |-> <<>>, outcome |-> "UAMError"]
            ELSE \E outcome \in {"key", "UAMError"} :
                    fnResult' = [queried |-> <<tier>>, outcome |-> outcome]
    /\ fnPc' = "resolved"
    /\ UNCHANGED <<fnArgs, otherVars>>

NextResolver == ResolvePublicKey

SpecResolver == InitResolver /\ [][NextResolver]_vars

\* ------------------------------------------------------------ envelope
\* The wire name of a field as a string of code units
WireName(name) ==
    CASE name = "signature" -> SignatureKey
      [] name = "uam_version" -> <<117, 97, 109, 95, 118, 101, 114, 115, 105, 111, 110>>
      [] name = "message_id" -> <<109, 101, 115, 115, 97, 103, 101, 95, 105, 100>>
      [] name = "from" -> <<102, 114, 111, 109>>
      [] name = "to" -> <<116, 111>>
      [] name = "timestamp" -> <<116, 105, 109, 101, 115, 116, 97, 109, 112>>
      [] name = "type" -> <<116, 121, 112, 101>>
      [] name = "nonce" -> <<110, 111, 110, 99, 101>>
      [] name = "payload" -> <<112, 97, 121, 108, 111, 97, 100>>
      [] name = "thread_id" -> <<116, 104, 114, 101, 97, 100, 95, 105, 100>>
      [] name = "reply_to" -> <<114, 101, 112, 108, 121, 95, 116, 111>>
      [] name = "expires" -> <<101, 120, 112, 105, 114, 101, 115>>
      [] name = "media_type" -> <<109, 101, 100, 105, 97, 95, 116, 121, 112, 101>>
      [] name = "metadata" -> <<109, 101, 116, 97, 100, 97, 116, 97>>
      [] name = "attachments" -> <<97, 116, 116, 97, 99, 104, 109, 101, 110, 116, 115>>
      [] name = "version" -> <<118, 101, 114, 115, 105, 111, 110>>
      [] name = "address" -> <<97, 100, 100, 114, 101, 115, 115>>
      [] name = "display_name" -> <<100, 105, 115, 112, 108, 97, 121, 95, 110, 97, 109, 101>>
      [] name = "relay" -> <<114, 101, 108, 97, 121>>
      [] name = "public_key" -> <<112, 117, 98, 108, 105, 99, 95, 107, 101, 121>>
      [] name = "description" -> <<100, 101, 115, 99, 114, 105, 112, 116, 105, 111, 110>>
      [] name = "system" -> <<115, 121, 115, 116, 101, 109>>
      [] name = "connection_endpoint" -> <<99, 111, 110, 110, 101, 99, 116, 105, 111, 110, 95, 101, 110, 100, 112, 111, 105, 110, 116>>
      [] name = "verified_domain" -> <<118, 101, 114, 105, 102, 105, 101, 100, 95, 100, 111, 109, 97, 105, 110>>
      [] name = "payload_formats" -> <<112, 97, 121, 108, 111, 97, 100, 95, 102, 111, 114, 109, 97, 116, 115>>
      [] name = "fingerprint" -> <<102, 105, 110, 103, 101, 114, 112, 114, 105, 110, 116>>
      [] name = "relays" -> <<114, 101, 108, 97, 121, 115>>

\* "0.1"
UAM_VERSION == <<48, 46, 49>>

\* Ed25519 as an ideal signature: a signature names the bytes it was made over
\* and the key pair that made it, and verifies against exactly those
signMessage(data, signingKey) == [t |-> "sig", data |-> data, key |-> signingKey]

verifySignature(data, signature, verifyKey) ==
    /\ signature.t = "sig"
    /\ signature.data = data
    /\ signature.key = verifyKey

\* The property names of a MessageEnvelope and the wire names they map to
RequiredProps == <<"uamVersion", "messageId", "fromAddress", "toAddress",
                   "timestamp", "type", "nonce", "payload">>
OptionalProps == <<"threadId", "replyTo", "expires", "mediaType", "metadata">>

PropWire(prop) ==
    CASE prop = "uamVersion" -> "uam_version"
      [] prop = "messageId" -> "message_id"
      [] prop = "fromAddress" -> "from"
      [] prop = "toAddress" -> "to"
      [] prop = "threadId" -> "thread_id"
      [] prop = "replyTo" -> "reply_to"
      [] prop = "mediaType" -> "media_type"
      [] prop = "displayName" -> "display_name"
      [] prop = "publicKey" -> "public_key"
      [] prop = "connectionEndpoint" -> "connection_endpoint"
      [] prop = "verifiedDomain" -> "verified_domain"
      [] prop = "payloadFormats" -> "payload_formats"
      [] OTHER -> prop

\* buildSignableDict that also takes the attachments
buildSignableDict_WithAttachments(envelope) ==
    [n \in DOMAIN RequiredProps |->
        <<WireName(PropWire(RequiredProps[n])), envelope[RequiredProps[n]]>>]
    \o SelectSeq([n \in DOMAIN OptionalProps |->
                    <<WireName(PropWire(OptionalProps[n])), envelope[OptionalProps[n]]>>],
                 LAMBDA e : e[2] # Undefined)
    \o (IF envelope.attachments # Undefined
        THEN <<<<WireName("attachments"), envelope.attachments>>>> ELSE <<>>)

\* buildSignableDict: the eight required fields under their wire names, then
\* each optional field that is not undefined
buildSignableDict(envelope) ==
    [n \in DOMAIN RequiredProps |->
        <<WireName(PropWire(RequiredProps[n])), envelope[RequiredProps[n]]>>]
    \o SelectSeq([n \in DOMAIN OptionalProps |->
                    <<WireName(PropWire(OptionalProps[n])), envelope[OptionalProps[n]]>>],
                 LAMBDA e : e[2] # Undefined)

\* toWireDict
toWireDict(envelope) ==
    buildSignableDict(envelope)
    \o <<<<WireName("signature"), envelope.signature>>>>
    \o (IF envelope.attachments # Undefined
        THEN <<<<WireName("attachments"), envelope.attachments>>>> ELSE <<>>)

\* REQUIRED_WIRE_FIELDS in the insertion order of the Set
REQUIRED_WIRE_FIELDS ==
    <<"uam_version", "message_id", "from", "to", "timestamp", "type", "nonce",
      "payload", "signature">>

\* d[key] of a JavaScript object
dictGet(d, key) == IF key \in objectKeys(d) THEN objectGet(d, key) ELSE Undefined

\* the missing names left in the order the Set is iterated
sortMissing_Unsorted(missing) == missing

\* missing.sort()
sortMissing(missing) == SortKeys({missing[n] : n \in DOMAIN missing})

\* fromWireDict: the envelope, or InvalidEnvelopeError with the missing names
fromWireDict(d) ==
    LET missing == SelectSeq([n \in DOMAIN REQUIRED_WIRE_FIELDS |->
                                  WireName(REQUIRED_WIRE_FIELDS[n])],
                             LAMBDA name : name \notin objectKeys(d)) IN
    IF missing # <<>>
    THEN [error |-> "InvalidEnvelopeError", missing |-> sortMissing(missing)]
    ELSE [uamVersion |-> dictGet(d, WireName("uam_version")),
          messageId |-> dictGet(d, WireName("message_id")),
          fromAddress |-> dictGet(d, WireName("from")),
          toAddress |-> dictGet(d, WireName("to")),
          timestamp |-> dictGet(d, WireName("timestamp")),
          type |-> dictGet(d, WireName("type")),
          nonce |-> dictGet(d, WireName("nonce")),
          payload |-> dictGet(d, WireName("payload")),
          signature |-> dictGet(d, WireName("signature")),
          threadId |-> dictGet(d, WireName("thread_id")),
          replyTo |-> dictGet(d, WireName("reply_to")),
          expires |-> dictGet(d, WireName("expires")),
          mediaType |-> dictGet(d, WireName("media_type")),
          metadata |-> dictGet(d, WireName("metadata")),
          attachments |-> dictGet(d, WireName("attachments"))]

\* createEnvelope once the addresses have parsed: the identifiers drawn, the
\* payload encrypted, the signable dict canonicalized and signed
createEnvelope(messageId, signingKey, options) ==
    LET tempEnvelope ==
            [uamVersion |-> JStr(UAM_VERSION),
             messageId |-> JStr(messageId),
             fromAddress |-> JStr(<<CodeA>>),
             toAddress |-> JStr(<<CodeB>>),
             timestamp |-> JStr(<<CodeA>>),
             type |-> JStr(<<CodeA>>),
             nonce |-> JStr(<<CodeA>>),
             payload |-> JStr(<<CodeA>>),
             signature |-> JStr(<<>>),
             threadId |-> options.threadId,
             replyTo |-> options.replyTo,
             expires |-> options.expires,
             mediaType |-> options.mediaType,
             metadata |-> options.metadata,
             attachments |-> options.attachments]
    IN [tempEnvelope EXCEPT
           !.signature = signMessage(canonicalize(buildSignableDict(tempEnvelope)), signingKey)]

\* verifyEnvelope: returns, or throws SignatureVerificationError
verifyEnvelopeOutcome(envelope, senderVerifyKey) ==
    IF verifySignature(canonicalize(buildSignableDict(envelope)), envelope.signature,
                       senderVerifyKey)
    THEN "ok" ELSE "SignatureVerificationError"

\* The options a caller passes to createEnvelope
EnvelopeOptions ==
    [threadId : {Undefined, JStr(<<CodeA>>)},
     replyTo : {Undefined, JStr(<<CodeA>>)},
     expires : {Undefined, JStr(<<CodeA>>)},
     mediaType : {Undefined, JStr(<<CodeA>>)},
     metadata : {Undefined, NestedObject},
     attachments : {Undefined, JArr(<<NestedObject>>)}]

SigningKeys == {"k1", "k2"}

\* What a field of a received envelope can have been replaced by
AlteredValues == {Undefined, JNull, JStr(<<CodeA>>), JStr(<<CodeB>>),
                  JObj(<<<<<<CodeA>>, JNum(2)>>>>)}

SignedProps == {RequiredProps[n] : n \in DOMAIN RequiredProps}
                   \cup {OptionalProps[n] : n \in DOMAIN OptionalProps}

InitEnvelope ==
    /\ IdleAgent
    /\ fnPc = "create"
    /\ fnArgs \in [messageId : {<<CodeA>>}, signingKey : SigningKeys, options : EnvelopeOptions]
    /\ fnResult = <<>>

\* createEnvelope(...)
CreateEnvelope ==
    /\ fnPc = "create"
    /\ fnResult' = [created |-> createEnvelope(fnArgs.messageId, fnArgs.signingKey, fnArgs.options)]
    /\ fnPc' = "created"
    /\ UNCHANGED <<fnArgs, otherVars>>

\* The envelope travels unchanged
EnvelopeIntact ==
    /\ fnPc = "created"
    /\ fnResult' = [created |-> fnResult.created, received |-> fnResult.created]
    /\ fnPc' = "received"
    /\ UNCHANGED <<fnArgs, otherVars>>

\* One field of the envelope is added, removed or replaced on the way
EnvelopeAltered ==
    /\ fnPc = "created"
    /\ \E prop \in SignedProps \cup {"attachments"}, value \in AlteredValues :
          /\ value # fnResult.created[prop]
          /\ fnResult' = [created |-> fnResult.created,
                          received |-> [fnResult.created EXCEPT ![prop] = value]]
    /\ fnPc' = "received"
    /\ UNCHANGED <<fnArgs, otherVars>>

\* verifyEnvelope(received, senderVerifyKey)
VerifyEnvelope ==
    /\ fnPc = "received"
    /\ \E senderVerifyKey \in SigningKeys :
          fnResult' = [created |-> fnResult.created, received |-> fnResult.received,
                       verifyKey |-> senderVerifyKey,
                       verified |-> verifyEnvelopeOutcome(fnResult.received, senderVerifyKey)]
    /\ fnPc' = "verified"
    /\ UNCHANGED <<fnArgs, otherVars>>

NextEnvelope ==
    \/ CreateEnvelope
    \/ EnvelopeIntact
    \/ EnvelopeAltered
    \/ VerifyEnvelope

SpecEnvelope == InitEnvelope /\ [][NextEnvelope]_vars

\* The wire names of a set of fields to take out of a dict
WireFields ==
    {"uam_version", "message_id", "from", "to", "timestamp", "type", "nonce", "payload",
     "signature", "thread_id", "reply_to", "expires", "media_type", "metadata", "attachments"}

InitWire ==
    /\ IdleAgent
    /\ fnPc = "toWire"
    /\ fnArgs \in [messageId : {<<CodeA>>}, signingKey : {"k1"},
                   options : {o \in EnvelopeOptions :
                                 o.replyTo = o.expires /\ o.expires = o.mediaType},
                   dropped : {fs \in SUBSET WireFields : Cardinality(fs) <= MaxMissing}]
    /\ fnResult = <<>>

\* toWireDict(envelope), and the dict as it arrives: some fields may be gone
ToWireDict ==
    /\ fnPc = "toWire"
    /\ LET envelope == createEnvelope(fnArgs.messageId, fnArgs.signingKey, fnArgs.options) IN
          fnResult' = [envelope |-> envelope,
                       wire |-> SelectSeq(toWireDict(envelope),
                                          LAMBDA e : \A f \in fnArgs.dropped : e[1] # WireName(f))]
    /\ fnPc' = "fromWire"
    /\ UNCHANGED <<fnArgs, otherVars>>

\* fromWireDict(wire)
FromWireDict ==
    /\ fnPc = "fromWire"
    /\ fnResult' = [envelope |-> fnResult.envelope, wire |-> fnResult.wire,
                    restored |-> fromWireDict(fnResult.wire)]
    /\ fnPc' = "restored"
    /\ UNCHANGED <<fnArgs, otherVars>>

NextWire ==
    \/ ToWireDict
    \/ FromWireDict

SpecWire == InitWire /\ [][NextWire]_vars

\* ------------------------------------------------------------ contact card
\* serializeVerifyKey: the base64 text of a key, here k1 and k2
serializeVerifyKey(key) == IF key = "k1" THEN <<107, 49>> ELSE <<107, 50>>

\* deserializeVerifyKey: the key a text decodes to; NoKey when it is not the
\* text of a key
deserializeVerifyKey(str) ==
    IF str = <<107, 49>> THEN "k1" ELSE IF str = <<107, 50>> THEN "k2" ELSE NoKey

\* publicKeyFingerprint
publicKeyFingerprint(key) == <<102>> \o serializeVerifyKey(key)

RequiredCardProps == <<"version", "address", "displayName", "relay", "publicKey">>
OptionalCardProps == <<"description", "system", "connectionEndpoint", "verifiedDomain">>
UnsignedCardProps == {"payloadFormats", "fingerprint", "relays"}

\* the signable dict of a card were the relays part of it
buildSignableCard_WithRelays(card) ==
    [n \in DOMAIN RequiredCardProps |->
        <<WireName(PropWire(RequiredCardProps[n])), card[RequiredCardProps[n]]>>]
    \o SelectSeq([n \in DOMAIN OptionalCardProps |->
                    <<WireName(PropWire(OptionalCardProps[n])), card[OptionalCardProps[n]]>>],
                 LAMBDA e : e[2] # Undefined)
    \o (IF card.relays # Undefined THEN <<<<WireName("relays"), card.relays>>>> ELSE <<>>)

\* buildSignableDict of a contact card: the five required fields, then each of
\* description, system, connection_endpoint, verified_domain that is not undefined
buildSignableCard(card) ==
    [n \in DOMAIN RequiredCardProps |->
        <<WireName(PropWire(RequiredCardProps[n])), card[RequiredCardProps[n]]>>]
    \o SelectSeq([n \in DOMAIN OptionalCardProps |->
                    <<WireName(PropWire(OptionalCardProps[n])), card[OptionalCardProps[n]]>>],
                 LAMBDA e : e[2] # Undefined)

\* "text/plain", "text/markdown" shortened to p and m
DefaultPayloadFormats == JArr(<<JStr(<<112>>), JStr(<<109>>)>>)

\* createContactCard once the address has parsed
createContactCard(address, signingKey, options) ==
    LET tempCard ==
            [version |-> JStr(UAM_VERSION),
             address |-> JStr(address),
             displayName |-> JStr(<<CodeA>>),
             description |-> options.description,
             system |-> options.system,
             connectionEndpoint |-> options.connectionEndpoint,
             relay |-> JStr(<<CodeA>>),
             publicKey |-> JStr(serializeVerifyKey(signingKey)),
             signature |-> JStr(<<>>),
             verifiedDomain |-> options.verifiedDomain,
             payloadFormats |-> IF options.payloadFormats = Undefined
                                THEN DefaultPayloadFormats ELSE options.payloadFormats,
             fingerprint |-> JStr(publicKeyFingerprint(signingKey)),
             relays |-> options.relays]
    IN [tempCard EXCEPT
           !.signature = signMessage(canonicalize(buildSignableCard(tempCard)), signingKey)]

\* The address of the card parses
cardAddressParses(card) ==
    /\ card.address.t = "str"
    /\ "error" \notin DOMAIN parseAddress(card.address.v)

\* The embedded public key is the text of a key
cardKeyDecodes(card) ==
    /\ card.publicKey.t = "str"
    /\ deserializeVerifyKey(card.publicKey.v) # NoKey

\* verifyContactCard on the full card: InvalidContactCardError when the address
\* does not parse, else the signature check under the embedded key
verifyContactCardOutcome(card) ==
    IF ~cardAddressParses(card) THEN "InvalidContactCardError"
    ELSE IF verifySignature(canonicalize(buildSignableCard(card)), card.signature,
                            deserializeVerifyKey(card.publicKey.v))
    THEN "ok" ELSE "SignatureVerificationError"

CardOptions ==
    {o \in [description : {Undefined, JStr(<<CodeA>>)},
            system : {Undefined, JStr(<<CodeA>>)},
            connectionEndpoint : {Undefined, JStr(<<CodeA>>)},
            verifiedDomain : {Undefined, JStr(<<CodeA>>)},
            payloadFormats : {Undefined},
            relays : {Undefined, JArr(<<JStr(<<CodeA>>)>>)}] :
        o.description = o.system /\ o.connectionEndpoint = o.verifiedDomain}

\* a::r, A::R and one that is not an address, a:r
CardAddresses == {<<97, 58, 58, 114>>, <<65, 58, 58, 82>>, <<97, 58, 114>>}

\* What a field of a received card can have been replaced by: the values an
\* envelope field can, another address, and the text of the other key
CardAlteredValues ==
    AlteredValues \cup {JStr(<<98, 58, 58, 114>>), JStr(<<97, 58, 58, 114>>),
                        JStr(<<107, 49>>), JStr(<<107, 50>>), JArr(<<JStr(<<CodeB>>)>>)}

InitCard ==
    /\ IdleAgent
    /\ fnPc = "create"
    /\ fnArgs \in [address : CardAddresses, signingKey : SigningKeys, options : CardOptions]
    /\ fnResult = <<>>

\* createContactCard(address, ...) with an address that parses
CreateContactCard ==
    /\ fnPc = "create"
    /\ "error" \notin DOMAIN parseAddress(fnArgs.address)
    /\ fnResult' = [created |-> createContactCard(fnArgs.address, fnArgs.signingKey, fnArgs.options)]
    /\ fnPc' = "created"
    /\ UNCHANGED <<fnArgs, otherVars>>

\* createContactCard(address, ...) throws InvalidAddressError
CreateContactCardFails ==
    /\ fnPc = "create"
    /\ "error" \in DOMAIN parseAddress(fnArgs.address)
    /\ fnResult' = [error |-> "InvalidAddressError"]
    /\ fnPc' = "failed"
    /\ UNCHANGED <<fnArgs, otherVars>>

\* The card is passed on unchanged
CardIntact ==
    /\ fnPc = "created"
    /\ fnResult' = [created |-> fnResult.created, received |-> fnResult.created]
    /\ fnPc' = "received"
    /\ UNCHANGED <<fnArgs, otherVars>>

\* One field of the card is added, removed or replaced by some party
CardAltered ==
    /\ fnPc = "created"
    /\ \E prop \in DOMAIN fnResult.created \ {"signature"}, value \in CardAlteredValues :
          /\ value # fnResult.created[prop]
          /\ fnResult' = [created |-> fnResult.created,
                          received |-> [fnResult.created EXCEPT ![prop] = value]]
    /\ fnPc' = "received"
    /\ UNCHANGED <<fnArgs, otherVars>>

\* verifyContactCard(received); a public key that is not the text of a key
\* either fails to decode or fails the signature check
VerifyContactCard ==
    /\ fnPc = "received"
    /\ \E outcome \in {"ok", "InvalidContactCardError", "SignatureVerificationError", "Error"} :
          /\ IF cardAddressParses(fnResult.received) /\ ~cardKeyDecodes(fnResult.received)
             THEN outcome \in {"SignatureVerificationError", "Error"}
             ELSE outcome = verifyContactCardOutcome(fnResult.received)
          /\ fnResult' = [created |-> fnResult.created, received |-> fnResult.received,
                          verified |-> outcome]
    /\ fnPc' = "verified"
    /\ UNCHANGED <<fnArgs, otherVars>>

NextCard ==
    \/ CreateContactCard
    \/ CreateContactCardFails
    \/ CardIntact
    \/ CardAltered
    \/ VerifyContactCard

SpecCard == InitCard /\ [][NextCard]_vars

\* ------------------------------------------------------------ contact upsert
\* A TEXT column that may be NULL: NULL, or the text
SqlNull == <<>>
SqlText(text) == <<text>>

\* options?.x ?? null handed to a TEXT column: an omitted or null option is NULL
nullish(option) == IF option = Null THEN SqlNull ELSE SqlText(option)

\* relays given and not null ? JSON.stringify(relays) : null
relaysJson(relays) ==
    IF relays # Undefined /\ relays # JNull THEN SqlText(sortedStringify(relays)) ELSE SqlNull

\* COALESCE(excluded.x, contacts.x)
coalesce(excluded, stored) == IF excluded # SqlNull THEN excluded ELSE stored

\* the upsert were every column set from the new values
addContactFull_Overwrite(table, address, publicKey, options) ==
    [table EXCEPT ![address] =
        [public_key |-> publicKey,
         display_name |-> nullish(options.displayName),
         trust_state |-> IF options.trustState = Null THEN "trusted" ELSE options.trustState,
         trust_source |-> nullish(options.trustSource),
         relay |-> nullish(options.relay),
         relays_json |-> relaysJson(options.relays),
         pinned_at |-> IF @ = NoContact THEN NoStamp ELSE @.pinned_at,
         first_seen |-> IF @ = NoContact THEN Stamp(now) ELSE @.first_seen,
         last_seen |-> Stamp(now)]]

\* ContactBook.addContact with every column of the contacts table: INSERT, or
\* ON CONFLICT(address) DO UPDATE with the COALESCE rules
addContactFull(table, address, publicKey, options) ==
    [table EXCEPT ![address] =
        IF @ = NoContact
        THEN [public_key |-> publicKey,
              display_name |-> nullish(options.displayName),
              trust_state |-> IF options.trustState = Null THEN "trusted" ELSE options.trustState,
              trust_source |-> nullish(options.trustSource),
              relay |-> nullish(options.relay),
              relays_json |-> relaysJson(options.relays),
              pinned_at |-> NoStamp,
              first_seen |-> Stamp(now),
              last_seen |-> Stamp(now)]
        ELSE [@ EXCEPT
                 !.public_key = publicKey,
                 !.display_name = nullish(options.displayName),
                 !.trust_state = IF options.trustState = Null THEN "trusted" ELSE options.trustState,
                 !.trust_source = coalesce(nullish(options.trustSource), @),
                 !.relay = coalesce(nullish(options.relay), @),
                 !.relays_json = coalesce(relaysJson(options.relays), @),
                 !.last_seen = Stamp(now)]]

\* The options of the call that first stores a contact, and of a later call
\* for the same address. Null stands for an option that is omitted or null
FirstOptions ==
    [displayName : {Null, "Alice"}, trustState : {Null, "unverified"},
     trustSource : {Null, "auto-accepted"}, relay : {Null, "https://r1"},
     relays : {JNull, JArr(<<JStr(<<CodeA>>)>>)}]

LaterOptions ==
    [displayName : {Null, "Bob"}, trustState : {Null, "verified"},
     trustSource : {Null, "explicit-approval"}, relay : {Null, "https://r2"},
     relays : {Undefined, JNull, JArr(<<>>), JArr(<<JStr(<<CodeB>>)>>)}]

InitUpsert ==
    /\ IdleAgent
    /\ fnPc = "empty"
    /\ fnArgs = <<>>
    /\ fnResult = <<>>

\* addContact(address, publicKey, options) for an address not yet stored
AddContactNew(address) ==
    /\ fnPc = "empty"
    /\ \E options \in FirstOptions :
          /\ contacts' = addContactFull(contacts, address, "k1", options)
          /\ fnArgs' = [address |-> address, publicKey |-> "k1", options |-> options]
    /\ knownAddresses' = knownAddresses \cup {address}
    /\ fnPc' = "stored"
    /\ UNCHANGED <<connected, trustPolicy, resolverKey, pending, blockedPatterns, blockedExact,
                   blockedDomains, emitted, inVars, sendVars, now, apiError, foVars,
                   lcVars, tpVars, fnResult, sysVars>>

\* setPinnedAt(address) on the stored contact
PinContact ==
    /\ fnPc = "stored"
    /\ contacts[fnArgs.address].pinned_at = NoStamp
    /\ contacts' = setPinnedAt(contacts, fnArgs.address)
    /\ UNCHANGED <<connected, trustPolicy, resolverKey, knownAddresses, pending,
                   blockedPatterns, blockedExact, blockedDomains, emitted, inVars, sendVars,
                   now, apiError, foVars, extVars>>

\* Time passes between the two calls
ClockAdvances ==
    /\ fnPc = "stored"
    /\ Tick

\* addContact(address, publicKey, options) for the stored address; the row as it
\* was is kept for comparison
AddContactExisting ==
    /\ fnPc = "stored"
    /\ \E publicKey \in Keys, options \in LaterOptions :
          /\ contacts' = addContactFull(contacts, fnArgs.address, publicKey, options)
          /\ fnArgs' = [address |-> fnArgs.address, publicKey |-> publicKey, options |-> options]
    /\ knownAddresses' = knownAddresses \cup {fnArgs.address}
    /\ fnResult' = contacts[fnArgs.address]
    /\ fnPc' = "upserted"
    /\ UNCHANGED <<connected, trustPolicy, resolverKey, pending, blockedPatterns, blockedExact,
                   blockedDomains, emitted, inVars, sendVars, now, apiError, foVars,
                   lcVars, tpVars, sysVars>>

NextUpsert ==
    \/ \E address \in Addr : AddContactNew(address)
    \/ PinContact
    \/ ClockAdvances
    \/ AddContactExisting

SpecUpsert == InitUpsert /\ [][NextUpsert]_vars

\* ------------------------------------------------------------ UAMNameRegistry
\* What a transaction that reverts leaves: the chain as it was, and the error
Revert(c, error) == [chain |-> c, outcome |-> error]

\* _validateName: 1 to 64 bytes, the first and the last of [a-z0-9], those
\* between of [a-z0-9_-]
validateName(name) ==
    /\ Len(name) # 0
    /\ Len(name) <= 64
    /\ IsAlnum(name[1])
    /\ IsAlnum(name[Len(name)])
    /\ \A n \in 2..(Len(name) - 1) : IsAlnum(name[n]) \/ name[n] = 45 \/ name[n] = 95

\* commit(commitment) sent by sender
commit(c, sender, commitment) ==
    [chain |-> [c EXCEPT !.commitments[commitment] =
                    [committer |-> sender, timestamp |-> c.timestamp]],
     outcome |-> "ok"]

\* the commitment checks without the check of the committer
commitmentError_AnyCommitter(stored, sender, timestamp) ==
    IF stored.committer = ZeroAddress THEN "CommitmentNotFound"
    ELSE IF timestamp < stored.timestamp + MIN_COMMITMENT_AGE THEN "CommitmentTooNew"
    ELSE IF timestamp > stored.timestamp + MAX_COMMITMENT_AGE THEN "CommitmentExpired"
    ELSE "none"

\* The commitment checks of register: the error they revert with, or none
commitmentError(stored, sender, timestamp) ==
    IF stored.committer = ZeroAddress THEN "CommitmentNotFound"
    ELSE IF stored.committer # sender THEN "CommitmentNotFound"
    ELSE IF timestamp < stored.timestamp + MIN_COMMITMENT_AGE THEN "CommitmentTooNew"
    ELSE IF timestamp > stored.timestamp + MAX_COMMITMENT_AGE THEN "CommitmentExpired"
    ELSE "none"

\* The availability check of register
notAvailable(existing, timestamp) ==
    existing.owner # ZeroAddress /\ existing.expiry + GRACE_PERIOD > timestamp

\* register reclaims a name that lapsed
reclaimed(existing, timestamp) ==
    existing.owner # ZeroAddress /\ existing.expiry + GRACE_PERIOD <= timestamp

\* register(name, publicKey, relayUrl, secret) sent by sender; payment tells
\* msg.value against the price: short, exact, excess, or refused for an excess
\* whose refund the sender does not take
register(c, sender, name, publicKey, secret, payment) ==
    IF ~validateName(name) THEN Revert(c, "InvalidName")
    ELSE LET commitmentHash == makeCommitment(name, sender, secret)
             error == commitmentError(c.commitments[commitmentHash], sender, c.timestamp)
             existing == c.records[name]
             reclaim == reclaimed(existing, c.timestamp) IN
         IF error # "none" THEN Revert(c, error)
         ELSE IF notAvailable(existing, c.timestamp) THEN Revert(c, "NameNotAvailable")
         ELSE IF reclaim /\ c.nameCount[existing.owner] = 0 THEN Revert(c, "Panic")
         ELSE IF payment = "short" THEN Revert(c, "InsufficientPayment")
         ELSE IF payment = "refused" THEN Revert(c, "Refund failed")
         ELSE LET counted == IF reclaim
                             THEN [c.nameCount EXCEPT ![existing.owner] = @ - 1]
                             ELSE c.nameCount IN
              [chain |-> [c EXCEPT
                             !.records[name] =
                                 [owner |-> sender, publicKey |-> publicKey,
                                  expiry |-> c.timestamp + LEASE_DURATION,
                                  registeredAt |-> c.timestamp],
                             !.nameCount = [counted EXCEPT ![sender] = @ + 1],
                             !.commitments[commitmentHash] = NoCommitment],
               outcome |-> "ok"]

\* resolve(name)
resolve(c, name) ==
    LET r == c.records[name] IN
    IF r.owner = ZeroAddress THEN [outcome |-> "NameNotFound"]
    ELSE IF c.timestamp > r.expiry + GRACE_PERIOD THEN [outcome |-> "NameNotFound"]
    ELSE [outcome |-> "ok", owner |-> r.owner, publicKey |-> r.publicKey, expiry |-> r.expiry]

\* available(name)
available(c, name) ==
    LET r == c.records[name] IN
    r.owner = ZeroAddress \/ c.timestamp > r.expiry + GRACE_PERIOD

\* renew(name) sent by sender
renew(c, sender, name, payment) ==
    LET r == c.records[name] IN
    IF r.owner # sender THEN Revert(c, "Unauthorized")
    ELSE IF c.timestamp > r.expiry + GRACE_PERIOD THEN Revert(c, "ExpiredName")
    ELSE IF payment = "short" THEN Revert(c, "InsufficientPayment")
    ELSE IF payment = "refused" THEN Revert(c, "Refund failed")
    ELSE [chain |-> [c EXCEPT !.records[name].expiry = @ + LEASE_DURATION], outcome |-> "ok"]

\* the transfer that counts the name for the receiver only
moveCount_NoDecrement(nameCount, sender, newOwner) ==
    [nameCount EXCEPT ![newOwner] = @ + 1]

\* nameCount[msg.sender]--; nameCount[newOwner]++
moveCount(nameCount, sender, newOwner) ==
    [[nameCount EXCEPT ![sender] = @ - 1] EXCEPT ![newOwner] = @ + 1]

\* transfer(name, newOwner) and transferWithPayment(name, newOwner) sent by
\* sender: the same checks and the same storage writes, then the payments,
\* each of which reverts the transaction when the payee refuses it; payment is
\* short of the fee, paid, or refused by a payee
transfer(c, sender, name, newOwner, payment) ==
    LET r == c.records[name] IN
    IF r.owner # sender THEN Revert(c, "Unauthorized")
    ELSE IF c.timestamp > r.expiry THEN Revert(c, "ExpiredName")
    ELSE IF payment = "short" THEN Revert(c, "InsufficientPayment")
    ELSE IF c.nameCount[sender] = 0 THEN Revert(c, "Panic")
    ELSE IF payment = "refused" THEN Revert(c, "Payment failed")
    ELSE [chain |-> [c EXCEPT !.nameCount = moveCount(c.nameCount, sender, newOwner),
                              !.records[name].owner = newOwner],
          outcome |-> "ok"]

\* The public key an account registers
KeyOf(account) == IF account = "alice" THEN "k1" ELSE "k2"

InitRegistry ==
    /\ AgentAsConstructed
    /\ chain = NewChain
    /\ transports = <<>>
    /\ tier3Resolver = <<>>
    /\ fnPc = "chain"
    /\ fnArgs = <<>>
    /\ fnResult = <<>>

\* The transaction ran: the chain it leaves
Mined(result) ==
    /\ chain' = result.chain
    /\ UNCHANGED <<fnVars, otherVarsButChain>>

\* A block is mined, some seconds after the one before
MineBlock(seconds) ==
    /\ chain.number < MaxBlocks
    /\ \E step \in seconds :
          chain' = [chain EXCEPT !.number = @ + 1, !.timestamp = @ + step]
    /\ UNCHANGED <<fnVars, otherVarsButChain>>

\* commit(commitment) by any account, of a hash made for any account
Commit(names) ==
    \E sender \in Accounts, name \in names, owner \in Accounts, secret \in Secrets :
        Mined(commit(chain, sender, makeCommitment(name, owner, secret)))

\* commit(makeCommitment(name, msg.sender, secret))
CommitOwn(names) ==
    \E sender \in Accounts, name \in names, secret \in Secrets :
        Mined(commit(chain, sender, makeCommitment(name, sender, secret)))

Register(names) ==
    \E sender \in Accounts, name \in names \cup InvalidNames, secret \in Secrets,
       payment \in {"short", "exact", "excess", "refused"} :
        Mined(register(chain, sender, name, KeyOf(sender), secret, payment))

\* renew(name), of a lease that was renewed fewer than MaxRenewals times
Renew(names) ==
    \E sender \in Accounts, name \in names,
       payment \in {"short", "exact", "excess", "refused"} :
        /\ chain.records[name].expiry
               < chain.records[name].registeredAt + (MaxRenewals + 1) * LEASE_DURATION
        /\ Mined(renew(chain, sender, name, payment))

Transfer(names) ==
    \E sender \in Accounts, name \in names, newOwner \in Accounts \cup {ZeroAddress},
       payment \in {"short", "paid", "refused"} :
        Mined(transfer(chain, sender, name, newOwner, payment))

TransferWithPayment(names) ==
    \E sender \in Accounts, name \in names, newOwner \in Accounts \cup {ZeroAddress},
       payment \in {"short", "paid", "refused"} :
        Mined(transfer(chain, sender, name, newOwner, payment))

\* Commit and reveal of one name: blocks a second apart, or as far apart as
\* reaches the largest age of a commitment
CommitTimes == {1, MAX_COMMITMENT_AGE - 1}

NextCommitReveal ==
    \/ MineBlock(CommitTimes)
    \/ Commit({<<97>>})
    \/ Register({<<97>>})

SpecCommitReveal == InitRegistry /\ [][NextCommitReveal]_vars

\* The leases of the names: blocks a second apart, or a second less than a
\* lease and its grace period apart
LeaseTimes == {1, LEASE_DURATION + GRACE_PERIOD - 1}

NextLease ==
    \/ MineBlock(LeaseTimes)
    \/ CommitOwn({<<97>>})
    \/ Register({<<97>>})
    \/ Renew({<<97>>})
    \/ Transfer({<<97>>})
    \/ TransferWithPayment({<<97>>})

SpecLease == InitRegistry /\ [][NextLease]_vars

\* ============================================================ contact book
\* One contacts.db used through ContactBook objects, one at a time: fnPc is
\* "new" (constructed, never opened), "open" or "closed" (_db === null in the
\* first and the last); fnResult names the last call and how it ended.
BookPatterns == Addr \cup {<<"*", a[2]>> : a \in Addr}

BookCall(call, outcome) == [call |-> call, outcome |-> outcome]

BookFrame == UNCHANGED <<connected, trustPolicy, resolverKey, pending, inVars, sendVars,
                         emitted, now, apiError, foVars, lcVars, tpVars, sysVars, fnArgs>>

InitBook ==
    /\ IdleAgent
    /\ fnPc = "new"
    /\ fnArgs = <<>>
    /\ fnResult = BookCall("constructor", "ok")

\* new ContactBook(dataDir) over the directory of the book before: the file
\* keeps its rows, the object starts with empty sets and no connection
BookNew ==
    /\ fnPc = "closed"
    /\ fnPc' = "new"
    /\ knownAddresses' = {}
    /\ blockedExact' = {}
    /\ blockedDomains' = {}
    /\ fnResult' = BookCall("constructor", "ok")
    /\ UNCHANGED <<contacts, blockedPatterns>>
    /\ BookFrame

\* The call threw before any cache was touched
BookThrew(call) ==
    /\ fnResult' = BookCall(call, "threw")
    /\ UNCHANGED <<fnPc, cbVars>>
    /\ BookFrame

\* ContactBook.open
BookOpen ==
    /\ fnPc' = "open"
    /\ knownAddresses' = {a \in Addr : contacts[a] # NoContact}
    /\ blockedExact' = {p \in blockedPatterns : p[1] # "*"}
    /\ blockedDomains' = {p[2] : p \in {q \in blockedPatterns : q[1] = "*"}}
    /\ fnResult' = BookCall("open", "ok")
    /\ UNCHANGED <<contacts, blockedPatterns>>
    /\ BookFrame

\* ContactBook.close
BookClose ==
    /\ fnPc # "new"
    /\ fnPc' = "closed"
    /\ fnResult' = BookCall("close", "ok")
    /\ UNCHANGED cbVars
    /\ BookFrame

\* ContactBook.addContact(address, publicKey); written is FALSE when the
\* statement's run() throws
BookAddContact(address, publicKey, written) ==
    IF fnPc # "open" \/ ~written THEN BookThrew("addContact")
    ELSE /\ contacts' = addContact(contacts, address, publicKey, "trusted", Null)
         /\ knownAddresses' = knownAddresses \cup {address}
         /\ fnResult' = BookCall("addContact", "ok")
         /\ UNCHANGED <<fnPc, pending, blockedPatterns, blockedExact, blockedDomains>>
         /\ BookFrame

\* ContactBook.removeContact(address)
BookRemoveContact(address, written) ==
    IF fnPc # "open" \/ ~written THEN BookThrew("removeContact")
    ELSE /\ contacts' = [contacts EXCEPT ![address] = NoContact]
         /\ knownAddresses' = knownAddresses \ {address}
         /\ fnResult' = BookCall("removeContact", "ok")
         /\ UNCHANGED <<fnPc, pending, blockedPatterns, blockedExact, blockedDomains>>
         /\ BookFrame

\* ContactBook.addBlock(pattern)
BookAddBlock(pattern, written) ==
    IF fnPc # "open" \/ ~written THEN BookThrew("addBlock")
    ELSE /\ blockedPatterns' = blockedPatterns \cup {pattern}
         /\ blockedExact' = cacheExact(blockedExact, pattern)
         /\ blockedDomains' = cacheDomains(blockedDomains, pattern)
         /\ fnResult' = BookCall("addBlock", "ok")
         /\ UNCHANGED <<fnPc, contacts, knownAddresses, pending>>
         /\ BookFrame

\* ContactBook.removeBlock(pattern)
BookRemoveBlock(pattern, written) ==
    IF fnPc # "open" \/ ~written THEN BookThrew("removeBlock")
    ELSE /\ blockedPatterns' = blockedPatterns \ {pattern}
         /\ blockedExact' = uncacheExact(blockedExact, pattern)
         /\ blockedDomains' = uncacheDomains(blockedDomains, pattern)
         /\ fnResult' = BookCall("removeBlock", "ok")
         /\ UNCHANGED <<fnPc, contacts, knownAddresses, pending>>
         /\ BookFrame

NextBook ==
    \/ BookNew
    \/ BookOpen
    \/ BookClose
    \/ \E a \in Addr, k \in Keys, written \in BOOLEAN : BookAddContact(a, k, written)
    \/ \E a \in Addr, written \in BOOLEAN : BookRemoveContact(a, written)
    \/ \E p \in BookPatterns, written \in BOOLEAN : BookAddBlock(p, written)
    \/ \E p \in BookPatterns, written \in BOOLEAN : BookRemoveBlock(p, written)

SpecBook == InitBook /\ [][NextBook]_vars

\* ============================================================ WebSocketTransport
\* Reconnection constants, in seconds
BASE_DELAY == 1
MAX_DELAY == 60
JITTER_RANGE == 1

\* Math.random() * JITTER_RANGE * 1000: milliseconds in [0, 1000)
Jitters == {0, 1, 500, JITTER_RANGE * 1000 - 1}

\* A WebSocketTransport after its constructor. ws is "none" (_ws === null),
\* "connecting" or "open"; timer is the delay in ms of the pending
\* _reconnectTimeout, 0 when none is pending; promise is the promise connect()
\* returned. closes counts the close events since the last open event, stopped
\* tells that disconnect() was called, and awaitedBy is the task awaiting the
\* promise (0: none): these three are not fields of the object.
NewTransport ==
    [running |-> FALSE, connected |-> FALSE, ws |-> "none", attempt |-> 0, timer |-> 0,
     promise |-> "none", closes |-> 0, stopped |-> FALSE, awaitedBy |-> 0]

\* The delay without the cap
backoffDelay_Uncapped(attempt) == BASE_DELAY * 2^attempt

\* Math.min(BASE_DELAY * Math.pow(2, attempt), MAX_DELAY)
backoffDelay(attempt) ==
    IF BASE_DELAY * 2^attempt < MAX_DELAY THEN BASE_DELAY * 2^attempt ELSE MAX_DELAY

\* connect(): _running, the promise, _startConnectionLoop with attempt = 0 and
\* its first tryConnect
transportConnect(t) ==
    [t EXCEPT !.running = TRUE, !.promise = "pending", !.attempt = 0, !.closes = 0,
              !.ws = "connecting", !.stopped = FALSE]

\* ws.on("open")
onOpen(t) ==
    [t EXCEPT !.connected = TRUE, !.attempt = 0, !.ws = "open", !.closes = 0,
              !.promise = IF @ = "pending" THEN "resolved" ELSE @]

\* ws.on("close")
onClose(t, jitter) ==
    IF ~t.running
    THEN [t EXCEPT !.connected = FALSE, !.ws = "none", !.closes = @ + 1]
    ELSE [t EXCEPT !.connected = FALSE, !.ws = "none", !.closes = @ + 1,
                   !.attempt = @ + 1,
                   !.timer = backoffDelay(t.attempt + 1) * 1000 + jitter]

\* tryConnect, run by the timer
tryConnect(t) ==
    IF ~t.running THEN [t EXCEPT !.timer = 0]
    ELSE [t EXCEPT !.timer = 0, !.ws = "connecting"]

\* The 30 s timer of connect(): the promise is rejected if it is still pending
\* (resolving it clears the timer); the loop is left as it is
connectTimeout(t) == [t EXCEPT !.promise = "rejected"]

\* disconnect(): the timer cleared, the listeners removed, the socket closed
transportDisconnect(t) ==
    [t EXCEPT !.running = FALSE, !.timer = 0, !.ws = "none", !.connected = FALSE,
              !.stopped = TRUE]

\* Transport i becomes t and nothing else changes
TransportBecomes(i, t) ==
    /\ transports' = [transports EXCEPT ![i] = t]
    /\ UNCHANGED <<connected, trustPolicy, resolverKey, cbVars, inVars, sendVars, emitted,
                   now, apiError, foVars, lcVars, tpVars, fnVars, chain, tier3Resolver>>

WsConnect(i) ==
    /\ ~transports[i].running
    /\ ~transports[i].stopped
    /\ TransportBecomes(i, transportConnect(transports[i]))

WsOpen(i) ==
    /\ transports[i].ws = "connecting"
    /\ TransportBecomes(i, onOpen(transports[i]))

\* The socket closes without disconnect(): a failed attempt or a drop
WsClose(i) ==
    /\ transports[i].ws # "none"
    /\ transports[i].attempt < MaxAttempts
    /\ \E jitter \in Jitters : TransportBecomes(i, onClose(transports[i], jitter))

WsTimer(i) ==
    /\ transports[i].timer # 0
    /\ TransportBecomes(i, tryConnect(transports[i]))

WsConnectTimeout(i) ==
    /\ transports[i].promise = "pending"
    /\ TransportBecomes(i, connectTimeout(transports[i]))

WsDisconnect(i) ==
    /\ transports[i].running
    /\ TransportBecomes(i, transportDisconnect(transports[i]))

InitBackoff ==
    /\ AgentAsConstructed
    /\ chain = NoChain
    /\ tier3Resolver = <<>>
    /\ transports = <<NewTransport>>
    /\ fnPc = "transport"
    /\ fnArgs = <<>>
    /\ fnResult = <<>>

NextBackoff ==
    \/ WsConnect(1)
    \/ WsOpen(1)
    \/ WsClose(1)
    \/ WsTimer(1)
    \/ WsConnectTimeout(1)
    \/ WsDisconnect(1)

SpecBackoff == InitBackoff /\ [][NextBackoff]_vars

\* ============================================================ Agent and its transports
\* Tasks of one Agent that call connect(), or send() or inbox(), which call it
\* through _ensureConnected. sendPc is "idle" (not in a call, or past
\* _ensureConnected) or "connecting" (at await this._transport.connect()).
\* Agent._transport is the transport created last, null while none was created.
InitOwner ==
    /\ AgentAsConstructed
    /\ chain = NoChain
    /\ tier3Resolver = <<>>
    /\ transports = <<>>
    /\ fnPc = "agent"
    /\ fnArgs = <<>>
    /\ fnResult = <<>>

OwnerFrame == UNCHANGED <<trustPolicy, resolverKey, cbVars, inVars, sendTo, sendVk, sendHs,
                          sendCase, emitted, now, apiError, foVars, tpVars, fnVars, chain,
                          tier3Resolver>>

\* Agent.connect up to await this._transport.connect(), the registration of a
\* first run included
OwnerConnect(i) ==
    /\ sendPc[i] = "idle"
    /\ ~connected
    /\ Len(transports) < MaxTransports
    /\ transports' = Append(transports,
                            [transportConnect(NewTransport) EXCEPT !.awaitedBy = i])
    /\ agent' = [agent EXCEPT !.token = "token", !.address = "own", !.storedToken = TRUE,
                              !.transport = "connecting",
                              !.didRegister = ~agent.storedToken, !.didCreate = TRUE]
    /\ sendPc' = [sendPc EXCEPT ![i] = "connecting"]
    /\ UNCHANGED connected
    /\ OwnerFrame

\* The promise was resolved: the contact book is opened, _connected is set
OwnerConnected(i) ==
    /\ sendPc[i] = "connecting"
    /\ \E j \in 1..Len(transports) :
          /\ transports[j].awaitedBy = i
          /\ transports[j].promise = "resolved"
          /\ transports' = [transports EXCEPT ![j].awaitedBy = 0]
    /\ agent' = [agent EXCEPT !.db = "open", !.transport = "connected"]
    /\ connected' = TRUE
    /\ sendPc' = [sendPc EXCEPT ![i] = "idle"]
    /\ OwnerFrame

\* The promise was rejected: connect() throws to its caller
OwnerConnectThrows(i) ==
    /\ sendPc[i] = "connecting"
    /\ \E j \in 1..Len(transports) :
          /\ transports[j].awaitedBy = i
          /\ transports[j].promise = "rejected"
          /\ transports' = [transports EXCEPT ![j].awaitedBy = 0]
    /\ sendPc' = [sendPc EXCEPT ![i] = "idle"]
    /\ UNCHANGED <<connected, agent>>
    /\ OwnerFrame

\* Agent.close: the contact book closed, Agent._transport disconnected
OwnerClose ==
    /\ transports # <<>>
    /\ transports' = [transports EXCEPT ![Len(transports)] = transportDisconnect(@)]
    /\ agent' = closeAgent(agent)
    /\ connected' = FALSE
    /\ UNCHANGED sendPc
    /\ OwnerFrame

NextOwner ==
    \/ \E i \in Senders : OwnerConnect(i)
    \/ \E i \in Senders : OwnerConnected(i)
    \/ \E i \in Senders : OwnerConnectThrows(i)
    \/ OwnerClose
    \/ \E j \in 1..Len(transports) : WsOpen(j)
    \/ \E j \in 1..Len(transports) : WsClose(j)
    \/ \E j \in 1..Len(transports) : WsTimer(j)
    \/ \E j \in 1..Len(transports) : WsConnectTimeout(j)

SpecOwner == InitOwner /\ [][NextOwner]_vars

\* ============================================================ Tier3Resolver
\* Default cache TTL in ms
CACHE_TTL_MS == 3600 * 1000

\* parsed.domain of the addresses resolved
Tier3Names == {"acme", "corp"}

NoEntry == [absent |-> TRUE]

\* new Tier3Resolver(config): config.cacheTtlMs ?? CACHE_TTL_MS
NewTier3(cacheTtlMs) ==
    [cacheTtlMs |-> cacheTtlMs,
     cache |-> [name \in Tier3Names |-> NoEntry],
     reading |-> {}]

\* The values Date.now() takes: around each multiple of the default TTL
ClockTimes ==
    {h * CACHE_TTL_MS + d : h \in 0..(MaxHours - 1), d \in {0, 1, CACHE_TTL_MS - 1}}

\* What readContract gives: the publicKey of the record (empty when none was
\* registered), a NameNotFound revert, or a failure of the RPC
ReadAnswers == Keys \cup {"", "NameNotFound", "rpc"}

\* The cache test that never expires an entry
cacheHit_Stale(entry, time) == entry # NoEntry

\* cached && cached.expiresAt > Date.now()
cacheHit(entry, time) == entry # NoEntry /\ entry.expiresAt > time

\* What the last call was and how it ended
Tier3Call(call, name, outcome, publicKey) ==
    [call |-> call, name |-> name, outcome |-> outcome, publicKey |-> publicKey]

Tier3Frame == UNCHANGED <<connected, trustPolicy, resolverKey, cbVars, inVars, sendVars,
                          emitted, apiError, foVars, lcVars, tpVars, fnPc, fnArgs, chain,
                          transports>>

InitTier3 ==
    /\ AgentAsConstructed
    /\ chain = NoChain
    /\ transports = <<>>
    /\ tier3Resolver \in {NewTier3(ttl) : ttl \in {1, CACHE_TTL_MS}}
    /\ fnPc = "tier3"
    /\ fnArgs = <<>>
    /\ fnResult = Tier3Call("constructor", "", "returned", "")

\* resolvePublicKey up to its return from the cache or to await readContract
Tier3Resolve(name) ==
    /\ name \notin tier3Resolver.reading
    /\ IF cacheHit(tier3Resolver.cache[name], now)
       THEN /\ fnResult' = Tier3Call("resolvePublicKey", name, "hit",
                                     tier3Resolver.cache[name].publicKey)
            /\ UNCHANGED tier3Resolver
       ELSE /\ fnResult' = Tier3Call("resolvePublicKey", name, "reading", "")
            /\ tier3Resolver' = [tier3Resolver EXCEPT !.reading = @ \cup {name}]
    /\ UNCHANGED now
    /\ Tier3Frame

\* readContract settles: the key is cached and returned, or UAMError is thrown
Tier3ReadReturns(name, answer) ==
    /\ name \in tier3Resolver.reading
    /\ IF answer \in Keys
       THEN /\ tier3Resolver' = [tier3Resolver EXCEPT
                            !.reading = @ \ {name},
                            !.cache[name] = [publicKey |-> answer,
                                             expiresAt |-> now + tier3Resolver.cacheTtlMs]]
            /\ fnResult' = Tier3Call("resolvePublicKey", name, "returned", answer)
       ELSE /\ tier3Resolver' = [tier3Resolver EXCEPT !.reading = @ \ {name}]
            /\ fnResult' = Tier3Call("resolvePublicKey", name, "UAMError", "")
    /\ UNCHANGED now
    /\ Tier3Frame

\* invalidateCache(name)
Tier3Invalidate(name) ==
    /\ tier3Resolver' = [tier3Resolver EXCEPT !.cache[name] = NoEntry]
    /\ fnResult' = Tier3Call("invalidateCache", name, "returned", "")
    /\ UNCHANGED now
    /\ Tier3Frame

\* invalidateCache()
Tier3InvalidateAll ==
    /\ tier3Resolver' = [tier3Resolver EXCEPT !.cache = [name \in Tier3Names |-> NoEntry]]
    /\ fnResult' = Tier3Call("invalidateCache", "", "returned", "")
    /\ UNCHANGED now
    /\ Tier3Frame

\* Time passes
Tier3Clock ==
    /\ \E time \in ClockTimes : time > now /\ now' = time
    /\ UNCHANGED <<tier3Resolver, fnResult>>
    /\ Tier3Frame

NextTier3 ==
    \/ \E name \in Tier3Names : Tier3Resolve(name)
    \/ \E name \in Tier3Names, answer \in ReadAnswers : Tier3ReadReturns(name, answer)
    \/ \E name \in Tier3Names : Tier3Invalidate(name)
    \/ Tier3InvalidateAll
    \/ Tier3Clock

SpecTier3 == InitTier3 /\ [][NextTier3]_vars

Next ==
    \/ NextTier3
    \/ NextOwner
    \/ NextBook
    \/ NextBackoff
    \/ NextInbox
    \/ NextPending
    \/ NextPinning
    \/ NextFailover
    \/ NextLifecycle
    \/ NextPush
    \/ NextCanon
    \/ NextAddress
    \/ NextResolver
    \/ NextEnvelope
    \/ NextWire
    \/ NextCard
    \/ NextUpsert
    \/ NextCommitReveal
    \/ NextLease
    \/ NextBlock
    \/ NextSend
    \/ \E a \in Addr : PendingExpires(a)

Spec == Init /\ [][Next]_vars

\* ================================================================ properties
\* ---------------------------------------------------------------- send path

\* C1: a send to an address that was unknown when send was called, and whose key
\* the resolver returns, emits exactly one HANDSHAKE_REQUEST before the MESSAGE
\* and leaves the recipient in trust state handshake-sent.
C1_FirstContactHandshake ==
    \A i \in Senders :
        (sendPc[i] = "done" /\ sendCase[i] = "fresh")
            => (sendHs[i] = 1 /\ getTrustState(sendTo[i]) = "handshake-sent")

RECURSIVE SumHs(_)
SumHs(S) == IF S = {} THEN 0 ELSE LET i == CHOOSE x \in S : TRUE IN sendHs[i] + SumHs(S \ {i})

\* C2: when every send task addressed the same, initially unknown, recipient and
\* all of them have completed, exactly one HANDSHAKE_REQUEST was emitted in total.
C2_OneHandshakePerRecipient ==
    \A a \in Addr :
        (\A i \in Senders : sendPc[i] = "done" /\ sendCase[i] = "fresh" /\ sendTo[i] = a)
            => SumHs(Senders) = 1

\* C4: a send to a pinned contact for which the resolver now returns a different
\* key never completes (it fails with KeyPinning and emits no envelope).
C4_PinnedMismatchFails ==
    \A i \in Senders : sendCase[i] = "pinned-mismatch" => sendPc[i] # "done"

\* ---------------------------------------------------------------- inbound path
IsPinned(a) == contacts[a] # NoContact /\ contacts[a].trust_state = "pinned"

\* C3: TOFU monotonicity: no step replaces the public_key of a contact whose
\* trust state is pinned.
C3_PinnedKeyKept ==
    [][\A a \in Addr :
          (IsPinned(a) /\ contacts'[a] # NoContact)
              => contacts'[a].public_key = contacts[a].public_key]_vars

\* A well-formed envelope from a sender no block pattern matches, signed and
\* encrypted under the key the agent holds for the sender
ValidFrom(raw) ==
    /\ ~raw.missing
    /\ ~isBlocked(raw.from)
    /\ raw.sig = senderKey(raw.from)
    /\ raw.enc = senderKey(raw.from)

\* C5: under a policy other than auto-accept, inbox returns a valid message
\* exactly when the sender's stored trust state is trusted, verified or pinned.
C5_TrustGate ==
    [][\A raw \in RawEnvelopes, ok \in BOOLEAN :
          (/\ trustPolicy # "auto-accept"
           /\ raw.type = "message"
           /\ ValidFrom(raw)
           /\ InboxProcessOn(raw, ok))
              => (inExit' = "returned"
                    <=> getTrustState(raw.from) \in {"trusted", "verified", "pinned"})]_vars

\* A pattern of the blocked_patterns table matches the address: the exact
\* address, or *::domain for its domain
PatternMatches(address) ==
    \/ address \in blockedPatterns
    \/ <<"*", address[2]>> \in blockedPatterns

\* An inbox iteration that leaves no trace: the loop goes on, nothing is added to
\* the result, nothing is sent, no table and no cache changes
QuietDrop ==
    /\ inPc' = "loop"
    /\ inResult' = inResult
    /\ emitted' = <<>>
    /\ UNCHANGED cbVars

\* C6: block-list precedence: whatever block/unblock calls came before, a
\* well-formed envelope whose sender is matched by a pattern now in the block list
\* (the exact address, or *::domain) is never returned by inbox: no inbox
\* iteration that returns, sends or changes anything is the handling of an
\* envelope whose sender a pattern matches.
C6_BlockPrecedence ==
    [][(inPc = "loop" /\ inRemaining > 0 /\ ~QuietDrop) =>
          \A raw \in RawEnvelopes, ok \in BOOLEAN :
              (~raw.missing /\ PatternMatches(raw.from)) => ~InboxProcessOn(raw, ok)]_vars

\* A known sender of a wildcard-blocked domain had its envelope rejected
C6_Witness ==
    /\ inExit = "blocked"
    /\ blockedExact = {}
    /\ <<"*", "y.net">> \in blockedPatterns
    /\ contacts[<<"bob", "y.net">>] # NoContact
    /\ trustPolicy = "auto-accept"

\* C7: inbox never raises because of a malformed entry of the batch (missing wire
\* fields, an undecryptable or unparsable handshake.request, a bad contact card).
C7_InboxNeverRaises ==
    ~(inPc = "raised"
      /\ inExit \in {"InvalidEnvelopeError", "DecryptionError", "InvalidContactCardError"})

\* C8: every entry of the list inbox returns has type message; no handshake.*,
\* receipt.* or session.* envelope is returned.
C8_OnlyMessagesReturned ==
    \A n \in DOMAIN inResult : inResult[n].type = "message"

ReceiptReadEmitted == \E n \in DOMAIN emitted : emitted[n].type = "receipt.read"

\* C9: receipt non-loopback: a receipt.read is emitted only by an inbox iteration
\* that returned an envelope of type message, and goes to its sender; handling an
\* inbound receipt.*, handshake.* or session.* envelope never emits one.
C9_ReceiptNonLoopback ==
    [][ReceiptReadEmitted' =>
          /\ \E raw \in RawEnvelopes, ok \in BOOLEAN : InboxProcessOn(raw, ok)
          /\ \A raw \in RawEnvelopes, ok \in BOOLEAN :
                InboxProcessOn(raw, ok)
                    => /\ raw.type = "message"
                       /\ inExit' = "returned"
                       /\ emitted' = <<Env("receipt.read", raw.from)>>]_vars

\* An envelope of a receipt.* or session.* type went through the receipt step
\* and nothing was sent for it
C9_Witness ==
    /\ inExit = "returned"
    /\ Len(inResult) = 1
    /\ inResult[1].type \in {"receipt.read", "session.request"}
    /\ getPublicKey(inResult[1].fromAddress) # Null
    /\ emitted = <<>>

\* C10: a well-formed envelope whose signature does not verify under the sender's
\* key is dropped without raising: nothing is returned, the contacts, the pending
\* handshakes and the block list are unchanged, and nothing is emitted: no
\* inbox iteration that is not such a quiet drop is the handling of an envelope
\* with a bad signature.
C10_BadSignatureDropped ==
    [][(inPc = "loop" /\ inRemaining > 0 /\ ~QuietDrop) =>
          \A raw \in RawEnvelopes, ok \in BOOLEAN :
              (~raw.missing /\ raw.sig # senderKey(raw.from)) => ~InboxProcessOn(raw, ok)]_vars

\* A bad signature was dropped while a handshake was pending
C10_Witness ==
    /\ inExit = "badsig"
    /\ inPc = "loop"
    /\ \E a \in Addr : pending[a] # NoPending

\* ---------------------------------------------------------------- handshake lifecycle

\* C11: approve(addr) with a pending entry for addr ends with the contact of addr
\* itself trusted with trust_source explicit-approval, the pending entry of addr
\* removed, and the one envelope handed to the transport a HANDSHAKE_ACCEPT to addr.
C11_ApproveTrustsAddr ==
    [][\A a \in Addr :
          Approve(a) =>
              /\ contacts'[a] # NoContact
              /\ contacts'[a].trust_state = "trusted"
              /\ contacts'[a].trust_source = "explicit-approval"
              /\ pending'[a] = NoPending
              /\ emitted' \in {<<>>, <<Env("handshake.accept", a)>>}]_vars

\* A handshake.request that reaches the policy branch of _handleRequest: well
\* formed, sender not blocked, signed by the sender's key, sealed to this agent,
\* carrying a contact card whose self-signature verifies
VerifiedRequest(raw) ==
    /\ raw.type = "handshake.request"
    /\ ~raw.missing
    /\ ~isBlocked(raw.from)
    /\ raw.sig = senderKey(raw.from)
    /\ raw.enc # NoKey
    /\ raw.card # NoCard
    /\ raw.card.signer = raw.card.public_key

HandshakeReplyEmitted ==
    \E n \in DOMAIN emitted : emitted[n].type \in {"handshake.accept", "handshake.deny"}

\* C12: under approval-required, handling a verified HANDSHAKE_REQUEST from S
\* stores its card in the pending queue under S and does nothing else (no contact
\* added or changed, nothing emitted, nothing returned); a HANDSHAKE_ACCEPT or
\* HANDSHAKE_DENY is emitted only by an approve or deny call.
C12_RequestQueued ==
    [][trustPolicy = "approval-required" =>
          /\ (inPc = "loop" /\ inRemaining > 0) =>
                \A raw \in RawEnvelopes, ok \in BOOLEAN :
                    (VerifiedRequest(raw) /\ InboxProcessOn(raw, ok)) =>
                        /\ pending' = [pending EXCEPT ![raw.from] =
                                          [card |-> raw.card, expired |-> FALSE]]
                        /\ UNCHANGED <<contacts, knownAddresses>>
                        /\ emitted' = <<>>
                        /\ inResult' = inResult
                        /\ inPc' = "loop"
          /\ HandshakeReplyEmitted' => \E a \in Addr : Approve(a) \/ Deny(a)]_vars

\* A request is queued under its sender, with no contact and nothing sent
C12_Witness ==
    /\ trustPolicy = "approval-required"
    /\ inExit = "handshake"
    /\ pending[<<"bob", "y.net">>] # NoPending
    /\ pending[<<"bob", "y.net">>].card.address # <<"bob", "y.net">>
    /\ \A a \in Addr : contacts[a] = NoContact
    /\ emitted = <<>>

\* C13: under allowlist-only, handling a verified HANDSHAKE_REQUEST from S hands
\* exactly one HANDSHAKE_DENY to S to the transport, adds no contact and no
\* pending entry, and returns nothing for it.
C13_AllowlistDenies ==
    [][(trustPolicy = "allowlist-only" /\ inPc = "loop" /\ inRemaining > 0) =>
          \A raw \in RawEnvelopes, ok \in BOOLEAN :
              (VerifiedRequest(raw) /\ InboxProcessOn(raw, ok)) =>
                  /\ UNCHANGED <<contacts, knownAddresses, pending>>
                  /\ inExit' # "returned"
                  /\ ok => /\ emitted' = <<Env("handshake.deny", raw.from)>>
                           /\ inResult' = inResult
                  /\ ~ok => emitted' = <<>>]_vars

\* A request was denied under allowlist-only
C13_Witness ==
    /\ trustPolicy = "allowlist-only"
    /\ inExit = "handshake"
    /\ emitted = <<Env("handshake.deny", <<"bob", "y.net">>)>>
    /\ \A a \in Addr : contacts[a] = NoContact /\ pending[a] = NoPending

\* C14: under auto-accept, handling a verified HANDSHAKE_REQUEST from S leaves S
\* stored as a contact with trust_state provisional, hands exactly one
\* HANDSHAKE_ACCEPT to S to the transport and adds nothing to the pending queue.
C14_AutoAcceptStoresSender ==
    [][(trustPolicy = "auto-accept" /\ inPc = "loop" /\ inRemaining > 0) =>
          \A raw \in RawEnvelopes, ok \in BOOLEAN :
              (VerifiedRequest(raw) /\ InboxProcessOn(raw, ok)) =>
                  /\ contacts'[raw.from] # NoContact
                  /\ contacts'[raw.from].trust_state = "provisional"
                  /\ pending' = pending
                  /\ ok => emitted' = <<Env("handshake.accept", raw.from)>>]_vars

C16_NoDemotion ==
    [][\A a \in Addr :
          (/\ contacts[a] # NoContact
           /\ contacts[a].trust_state \in {"pinned", "trusted", "verified"}
           /\ contacts'[a] # NoContact)
          => contacts'[a].trust_state \notin {"provisional", "unverified"}]_vars

\* C17: a verified inbound handshake.accept from S leaves S's contact pinned with
\* a non-null pinned_at whatever S's row was before, and no handshake.accept is
\* ever in what inbox returns
VerifiedAccept(raw) ==
    /\ raw.type = "handshake.accept"
    /\ ~raw.missing
    /\ ~isBlocked(raw.from)
    /\ raw.sig = senderKey(raw.from)

C17_AcceptPins ==
    [][/\ (inPc = "loop" /\ inRemaining > 0) =>
            \A raw \in RawEnvelopes, ok \in BOOLEAN :
                (VerifiedAccept(raw) /\ InboxProcessOn(raw, ok)) =>
                    /\ contacts'[raw.from] # NoContact
                    /\ contacts'[raw.from].trust_state = "pinned"
                    /\ contacts'[raw.from].pinned_at # NoStamp
                    /\ inResult' = inResult
       /\ \A n \in DOMAIN inResult' : inResult'[n].type # "handshake.accept"]_vars

\* an accept pinned a contact that auto-accept had stored as provisional
C17_Witness ==
    /\ inExit = "handshake"
    /\ trustPolicy = "auto-accept"
    /\ contacts[<<"bob", "y.net">>] # NoContact
    /\ contacts[<<"bob", "y.net">>].trust_state = "pinned"
    /\ contacts[<<"bob", "y.net">>].trust_source = "auto-accepted-provisional"
    /\ contacts[<<"bob", "y.net">>].pinned_at # NoStamp

\* C18: once pinned_at has been set for a contact, no later step changes it
C18_PinnedAtKept ==
    [][\A a \in Addr :
          (/\ contacts[a] # NoContact
           /\ contacts[a].pinned_at # NoStamp
           /\ contacts'[a] # NoContact)
          => contacts'[a].pinned_at = contacts[a].pinned_at]_vars

\* C19: the sweep at the start of connect() and inbox() removes every pending entry
\* older than 7 days, whether or not its receipt could be sent, and leaves the
\* younger ones as they are; what it sends is receipt.failed only, to addresses of
\* removed entries only, at most one each; no entry older than 7 days is left
C19_SweepExpired ==
    [][(Connect \/ InboxStart) =>
          /\ \A a \in Addr :
                pending'[a] = IF pending[a] # NoPending /\ pending[a].expired
                              THEN NoPending ELSE pending[a]
          /\ \A a \in Addr : pending'[a] # NoPending => ~pending'[a].expired
          /\ \A n \in DOMAIN emitted' :
                /\ emitted'[n].type = "receipt.failed"
                /\ pending[emitted'[n].to] # NoPending
                /\ pending[emitted'[n].to].expired
                /\ \A m \in DOMAIN emitted' : emitted'[m].to = emitted'[n].to => m = n
          /\ UNCHANGED <<contacts, trustPolicy>>]_vars

\* a sweep has removed bob's expired entry with its receipt and kept alice's
C19_Witness ==
    /\ connected
    /\ emitted = <<Env("receipt.failed", <<"bob", "y.net">>)>>
    /\ pending[<<"bob", "y.net">>] = NoPending
    /\ pending[<<"alice", "x.org">>] # NoPending
    /\ ~pending[<<"alice", "x.org">>].expired

\* ---------------------------------------------------------------- relay failover
\* C20: on the failover branch the relays posted to so far are the listed ones, in
\* list order; a send that returned was accepted by exactly one relay, the last
\* one posted to; a send that raised posted to every listed relay, none accepted,
\* and the error raised is that of the last relay in the list
C20_FailoverInOrder ==
    usesFailover(relayUrls) =>
        /\ Len(foPosted) <= Len(relayUrls)
        /\ \A n \in DOMAIN foPosted : foPosted[n] = sendUrl(relayUrls[n])
        /\ foPc \in {"failover", "returned", "raised"}
        /\ foPc = "failover" => foAccepted = <<>>
        /\ foPc = "returned" =>
              /\ Len(foPosted) >= 1
              /\ foAccepted = <<foPosted[Len(foPosted)]>>
        /\ foPc = "raised" =>
              /\ Len(foPosted) = Len(relayUrls)
              /\ foAccepted = <<>>
              /\ lastError # NoError
              /\ lastError.url = relayUrls[Len(relayUrls)]
              /\ lastError.error \in {"HTTP", "fetch"}

\* the first relay failed, the second, a different endpoint, accepted
C20_Witness ==
    /\ foPc = "returned"
    /\ Len(relayUrls) = 2
    /\ Len(foPosted) = 2
    /\ foPosted[1] # foPosted[2]
    /\ foAccepted = <<foPosted[2]>>
    /\ lastError # NoError

\* ---------------------------------------------------------------- lifecycle
\* C21: connect() on a connected agent registers nothing, creates no transport and
\* leaves token, address, transport and contact book as they are; close() on an
\* agent that is already closed changes nothing and does not raise
C21_ConnectCloseIdempotent ==
    [][/\ ConnectAgain =>
            /\ ~agent'.didRegister
            /\ ~agent'.didCreate
            /\ agent'.token = agent.token
            /\ agent'.address = agent.address
            /\ agent'.transport = agent.transport
            /\ agent'.db = agent.db
            /\ apiError' = Null
            /\ UNCHANGED <<connected, cbVars>>
       /\ (CloseAgain /\ agent.db = "closed" /\ agent.transport \in {"none", "disconnected"}) =>
            /\ agent'.db = "closed"
            /\ agent'.transport = agent.transport
            /\ agent'.token = agent.token
            /\ agent'.address = agent.address
            /\ apiError' = Null
            /\ UNCHANGED <<connected, cbVars>>]_vars

\* the agent was connected by registering, closed, and is closed with a
\* contact book on disk that holds a pending handshake
C21_Witness ==
    /\ ~connected
    /\ agent.transport = "disconnected"
    /\ agent.db = "closed"
    /\ agent.token = "token"
    /\ apiError = Null
    /\ \E a \in Addr : pending[a] # NoPending

\* ---------------------------------------------------------------- push transport
\* C22: every envelope frame that arrived is in exactly one place exactly once: the
\* frames dispatched to the listener, those returned by receive calls, or the
\* buffer; buffered frames come back in arrival order; a receive(limit) returns the
\* first min(limit, buffered) frames and removes exactly those; ping, ack and
\* error frames are in none of the three
IsEnvelopeFrame(msg) == msg.version /\ ~msg.error /\ msg.type \notin {"ping", "ack", "error"}

Occurrences(seq, msg) == Cardinality({n \in DOMAIN seq : seq[n] = msg})

Increasing(seq) == \A n, m \in DOMAIN seq : n < m => seq[n].id < seq[m].id

C22_ExactlyOnce ==
    [][/\ \A n \in DOMAIN wsArrived' :
             Occurrences(wsDispatched' \o wsReceived' \o wsPending', wsArrived'[n])
                 = IF IsEnvelopeFrame(wsArrived'[n]) THEN 1 ELSE 0
       /\ Len(wsDispatched') + Len(wsReceived') + Len(wsPending')
             = Cardinality({n \in DOMAIN wsArrived' : IsEnvelopeFrame(wsArrived'[n])})
       /\ Increasing(wsReceived' \o wsPending')
       /\ Increasing(wsDispatched')
       /\ \A limit \in 0..MaxLimit :
             WsReceive(limit) =>
                 /\ Len(wsResult') <= limit
                 /\ wsResult' \o wsPending' = wsPending
                 /\ Len(wsResult') = limit \/ wsPending' = <<>>
       /\ (wsOnMessage /\ WsMessage) => wsPending' = wsPending
       /\ (~wsOnMessage /\ WsMessage) => wsDispatched' = wsDispatched]_vars

\* two envelopes were buffered, the first was drained by
\* receive(1), then a listener was registered and a third envelope dispatched
C22_Witness ==
    /\ Len(wsReceived) = 1
    /\ Len(wsPending) = 1
    /\ Len(wsDispatched) = 1
    /\ wsReceived[1].id < wsPending[1].id
    /\ wsPending[1].id < wsDispatched[1].id

\* ---------------------------------------------------------------- canonical JSON
\* C25: a map and the same map with its keys, and the keys of its nested
\* objects, inserted in another order canonicalize to the same bytes; so does
\* the map with its signature entry and its null-valued entries taken out
C25_OrderIndependent ==
    fnPc = "done" =>
        /\ fnResult[1] = fnResult[2]
        /\ fnResult[1] = canonicalize(SelectSeq(fnArgs.map, LAMBDA e : e[1] # SignatureKey))
        /\ fnResult[1] = canonicalize(SelectSeq(fnArgs.map, LAMBDA e : e[2] # JNull))

\* {a: {b:2, a:1}, signature: 1} and {signature: 1, a: {a:1, b:2}} were canonicalized
C25_Witness ==
    /\ fnPc = "done"
    /\ fnArgs.map = <<<<<<CodeA>>, NestedObject>>, <<SignatureKey, JNum(1)>>>>
    /\ fnArgs.shuffled = <<<<SignatureKey, JNum(1)>>, <<<<CodeA>>, NestedObjectReordered>>>>
    /\ fnResult[1] = <<123, 34, 97, 34, 58, 123, 34, 97, 34, 58, 49, 44, 34, 98, 34, 58, 50, 125, 125>>

\* C26: every byte canonicalize emits is ASCII
C26_AsciiOnly ==
    fnPc = "done" => \A n \in DOMAIN fnResult[1] : fnResult[1][n] < 128

\* ---------------------------------------------------------------- envelope
\* C23: an envelope from createEnvelope verifies under the signer's key, also
\* when its attachments were added, removed or altered; it fails with
\* SignatureVerificationError when a required field or a present optional field
\* differs from the one that was signed, when an absent optional field was added
\* with a value, or when the verify key is not the signer's
C23_VerifyAfterCreate ==
    fnPc = "verified" =>
        LET created == fnResult.created
            received == fnResult.received IN
        /\ fnResult.verified \in {"ok", "SignatureVerificationError"}
        /\ ((\A prop \in SignedProps : received[prop] = created[prop])
               /\ fnResult.verifyKey = fnArgs.signingKey)
              => fnResult.verified = "ok"
        /\ fnResult.verifyKey # fnArgs.signingKey
              => fnResult.verified = "SignatureVerificationError"
        /\ \A prop \in SignedProps :
              (created[prop] # Undefined /\ received[prop] # created[prop])
                  => fnResult.verified = "SignatureVerificationError"
        /\ \A prop \in SignedProps :
              (created[prop] = Undefined /\ received[prop] \notin {Undefined, JNull})
                  => fnResult.verified = "SignatureVerificationError"

\* an envelope signed with thread_id and metadata had its attachments replaced
\* and verified under the signer's key
C23_Witness ==
    /\ fnPc = "verified"
    /\ fnResult.created.threadId # Undefined
    /\ fnResult.created.metadata # Undefined
    /\ fnResult.created.attachments # Undefined
    /\ fnResult.received.attachments \notin {Undefined, fnResult.created.attachments}
    /\ fnResult.verifyKey = fnArgs.signingKey
    /\ fnResult.verified = "ok"

\* C24: fromWireDict(toWireDict(e)) is e, absent optional fields staying absent;
\* a dict without some required fields is rejected with InvalidEnvelopeError
\* naming exactly the missing fields in sorted order
C24_WireRoundTrip ==
    fnPc = "restored" =>
        LET missing == {WireName(f) : f \in
                           fnArgs.dropped \cap {REQUIRED_WIRE_FIELDS[n] : n \in DOMAIN REQUIRED_WIRE_FIELDS}}
            restored == fnResult.restored IN
        /\ fnArgs.dropped = {} => restored = fnResult.envelope
        /\ missing = {} =>
              /\ "error" \notin DOMAIN restored
              /\ \A prop \in DOMAIN fnResult.envelope :
                    restored[prop] = IF PropWire(prop) \in fnArgs.dropped THEN Undefined
                                     ELSE fnResult.envelope[prop]
        /\ missing # {} =>
              /\ "error" \in DOMAIN restored
              /\ restored.error = "InvalidEnvelopeError"
              /\ {restored.missing[n] : n \in DOMAIN restored.missing} = missing
              /\ Len(restored.missing) = Cardinality(missing)
              /\ \A n \in 1..(Len(restored.missing) - 1) :
                    LexLess(restored.missing[n], restored.missing[n + 1])

\* a dict without uam_version and message_id was rejected, message_id named first
C24_Witness ==
    /\ fnPc = "restored"
    /\ fnArgs.dropped = {"uam_version", "message_id"}
    /\ fnResult.restored.error = "InvalidEnvelopeError"
    /\ fnResult.restored.missing = <<WireName("message_id"), WireName("uam_version")>>

\* ---------------------------------------------------------------- address
\* The address grammar: an agent of [a-z0-9]([a-z0-9_-]{0,62}[a-z0-9])?, "::",
\* a domain of [a-z0-9]([a-z0-9.-]{0,253}[a-z0-9])?, with the agent at most 64
\* and the whole at most 128 characters
InGrammar(str) ==
    \E at \in 1..(Len(str) - 1) :
        LET agentLen == at - 1
            domainLen == Len(str) - at - 1 IN
        /\ str[at] = 58
        /\ str[at + 1] = 58
        /\ agentLen \in 1..MAX_AGENT_LEN
        /\ domainLen \in 1..255
        /\ Len(str) <= MAX_ADDRESS_LEN
        /\ IsAlnum(str[1])
        /\ IsAlnum(str[agentLen])
        /\ \A n \in 1..agentLen : IsAgentChar(str[n])
        /\ IsAlnum(str[at + 2])
        /\ IsAlnum(str[Len(str)])
        /\ \A n \in (at + 2)..Len(str) : IsDomainChar(str[n])

\* C29: parseAddress(raw) returns an address exactly when the trimmed, lowercased
\* raw is in the grammar and throws InvalidAddressError otherwise; the agent and
\* domain returned are lowercase, full is the trimmed, lowercased raw, and
\* parseAddress(full) returns the same address
C29_ParseAddress ==
    /\ fnPc \in {"parsed", "reparsed"} =>
          LET normalized == toLowerCase(trim(fnArgs))
              address == fnResult[1] IN
          IF InGrammar(normalized)
          THEN /\ DOMAIN address = {"agent", "domain"}
               /\ fullAddress(address) = normalized
               /\ \A n \in DOMAIN address.agent : address.agent[n] \notin 65..90
               /\ \A n \in DOMAIN address.domain : address.domain[n] \notin 65..90
               /\ \A n \in DOMAIN address.agent : address.agent[n] # 58
               /\ Len(address.agent) <= MAX_AGENT_LEN
               /\ Len(fullAddress(address)) <= MAX_ADDRESS_LEN
          ELSE address = [error |-> "InvalidAddressError"]
    /\ fnPc = "reparsed" => fnResult[2] = fnResult[1]

\* a padded address with an upper-case agent of 64 characters and a domain
\* ending in the KELVIN SIGN was parsed, and its full form parsed to the same
C29_Witness ==
    /\ fnPc = "reparsed"
    /\ fnArgs[1] = 32
    /\ fnArgs[3] = 65
    /\ Len(fnResult[1].agent) = MAX_AGENT_LEN
    /\ fnResult[1].agent[1] = 97
    /\ fnResult[1].domain[Len(fnResult[1].domain)] = 107
    /\ fnResult[2] = fnResult[1]

C27_CardVerifies ==
    fnPc = "verified" /\ "received" \in DOMAIN fnResult =>
        LET created == fnResult.created
            received == fnResult.received
            signed == {RequiredCardProps[n] : n \in DOMAIN RequiredCardProps}
                          \cup {OptionalCardProps[n] : n \in DOMAIN OptionalCardProps}
            validAddress == /\ received.address.t = "str"
                            /\ InGrammar(toLowerCase(trim(received.address.v))) IN
        /\ (\A prop \in signed : received[prop] = created[prop]) => fnResult.verified = "ok"
        /\ \A prop \in signed :
              (created[prop] # Undefined /\ received[prop] # created[prop])
                  => fnResult.verified # "ok"
        /\ \A prop \in signed :
              (created[prop] = Undefined /\ received[prop] \notin {Undefined, JNull})
                  => fnResult.verified # "ok"
        /\ ~validAddress => fnResult.verified = "InvalidContactCardError"

\* a card signed with a description had its relays replaced and verified
C27_Witness ==
    /\ fnPc = "verified"
    /\ "received" \in DOMAIN fnResult
    /\ fnResult.created.description # Undefined
    /\ fnResult.created.relays # Undefined
    /\ fnResult.received.relays \notin {Undefined, fnResult.created.relays}
    /\ fnResult.verified = "ok"

RegisterPayments == {"short", "exact", "excess", "refused"}

\* C31: a register that succeeds finds the commitment makeCommitment(name,
\* caller, secret) stored by the caller itself, between 1 second and 24 hours
\* old; it leaves the commitments made for other accounts as they are and does
\* not depend on them; it deletes the commitment, so that the same register
\* sent again fails; and a commitment comes to name an account as committer
\* only by a commit that account sent
C31_CommitReveal ==
    [][/\ \A sender \in Accounts, name \in {<<97>>, <<45>>}, secret \in Secrets,
             payment \in RegisterPayments :
           LET result == register(chain, sender, name, KeyOf(sender), secret, payment)
               commitmentHash == makeCommitment(name, sender, secret)
               stored == chain.commitments[commitmentHash] IN
           (result.outcome = "ok" /\ chain' = result.chain) =>
               /\ stored.committer = sender
               /\ chain.timestamp - stored.timestamp >= 1
               /\ chain.timestamp - stored.timestamp <= 24 * 3600
               /\ chain'.commitments[commitmentHash] = NoCommitment
               /\ \A other \in CommitmentHashes \ {commitmentHash} :
                     /\ chain'.commitments[other] = chain.commitments[other]
                     /\ register([chain EXCEPT !.commitments[other] = NoCommitment],
                                 sender, name, KeyOf(sender), secret, payment).outcome = "ok"
               /\ \A again \in RegisterPayments :
                     register(chain', sender, name, KeyOf(sender), secret, again).outcome
                         = "CommitmentNotFound"
       /\ \A commitment \in CommitmentHashes, account \in Accounts :
             (/\ chain'.commitments[commitment] # chain.commitments[commitment]
              /\ chain'.commitments[commitment].committer = account)
                 => chain' = commit(chain, account, commitment).chain
      ]_vars

\* alice registered a with a commitment exactly 24 hours old, bob's own
\* commitment for a is still stored
C31_Witness ==
    /\ chain.records[<<97>>].owner = "alice"
    /\ chain.records[<<97>>].registeredAt = 1 + MAX_COMMITMENT_AGE
    /\ chain.commitments[makeCommitment(<<97>>, "alice", "s1")] = NoCommitment
    /\ chain.commitments[makeCommitment(<<97>>, "bob", "s1")].committer = "bob"

\* C39: a commit sent by another account leaves a commitment that account A
\* stored as it is: A stays the committer and the timestamp is kept
C39_CommitmentNotReplaced ==
    [][\A owner \in Accounts, other \in Accounts, commitment \in CommitmentHashes :
          (/\ other # owner
           /\ chain.commitments[commitment].committer = owner
           /\ \E sent \in CommitmentHashes : chain' = commit(chain, other, sent).chain)
              => chain'.commitments[commitment] = chain.commitments[commitment]]_vars

\* C32: for a registered name, while the block time is at most expiry + 30
\* days resolve returns the owner and the record and no register of the name
\* succeeds; after that resolve reverts with NameNotFound, available is true
\* and a register with a valid commitment and payment succeeds
C32_HeldThroughGrace ==
    LET name == <<97>>
        r == chain.records[name] IN
    r.owner # ZeroAddress =>
        IF chain.timestamp <= r.expiry + 30 * 24 * 3600
        THEN /\ resolve(chain, name)
                    = [outcome |-> "ok", owner |-> r.owner, publicKey |-> r.publicKey,
                       expiry |-> r.expiry]
             /\ \A sender \in Accounts, secret \in Secrets, payment \in RegisterPayments :
                   register(chain, sender, name, KeyOf(sender), secret, payment).outcome
                       \in {"NameNotAvailable", "CommitmentNotFound", "CommitmentTooNew",
                            "CommitmentExpired"}
        ELSE /\ resolve(chain, name) = [outcome |-> "NameNotFound"]
             /\ available(chain, name)
             /\ \A sender \in Accounts, secret \in Secrets :
                   commitmentError(chain.commitments[makeCommitment(name, sender, secret)],
                                   sender, chain.timestamp) = "none"
                       => register(chain, sender, name, KeyOf(sender), secret, "exact").outcome
                              = "ok"

\* C40: available(name) is true exactly when a register of the name with a valid
\* commitment and sufficient payment does not revert with NameNotAvailable, and
\* when the name can be registered resolve does not return the previous owner
C40_AvailableAgrees ==
    LET name == <<97>>
        registrable == ~notAvailable(chain.records[name], chain.timestamp) IN
    /\ available(chain, name) <=> registrable
    /\ registrable => resolve(chain, name) = [outcome |-> "NameNotFound"]

\* C33: the count of every account is the number of records it owns, and no
\* register and no transfer runs into a decrement of a count that is zero
C33_NameCount ==
    /\ \A account \in Accounts :
          chain.nameCount[account]
              = Cardinality({name \in RegistryNames : chain.records[name].owner = account})
    /\ \A sender \in Accounts, name \in RegistryNames :
          /\ \A secret \in Secrets, payment \in RegisterPayments :
                register(chain, sender, name, KeyOf(sender), secret, payment).outcome # "Panic"
          /\ \A newOwner \in Accounts \cup {ZeroAddress}, payment \in {"short", "paid", "refused"} :
                transfer(chain, sender, name, newOwner, payment).outcome # "Panic"

\* the name a, registered by bob, was transferred to alice and her lease and
\* its grace period ran out: the register bob can send now takes the name and
\* her count with it
C33_Witness ==
    LET r == chain.records[<<97>>] IN
    /\ r.owner = "alice"
    /\ r.publicKey = "k2"
    /\ chain.nameCount["alice"] = 1
    /\ chain.nameCount["bob"] = 0
    /\ chain.timestamp = r.expiry + GRACE_PERIOD
    /\ LET result == register(chain, "bob", <<97>>, "k2", "s1", "exact") IN
       /\ result.outcome = "ok"
       /\ result.chain.nameCount["alice"] = 0
       /\ result.chain.nameCount["bob"] = 1

\* ------------------------------------------------------------ contact book

\* C34: once a ContactBook has been opened, after every call isKnown(a) holds
\* exactly when the contacts table has a row for a, and isBlocked(a) exactly
\* when blocked_patterns holds a or *::domain(a); a call that throws leaves the
\* three caches as they were.
C34_CachesAgree ==
    [][/\ fnPc' # "new" =>
            \A a \in Addr :
               /\ (a \in knownAddresses') <=> (contacts'[a] # NoContact)
               /\ (a \in blockedExact' \/ a[2] \in blockedDomains')
                    <=> (a \in blockedPatterns' \/ <<"*", a[2]>> \in blockedPatterns')
       /\ fnResult'.outcome = "threw" =>
            /\ knownAddresses' = knownAddresses
            /\ blockedExact' = blockedExact
            /\ blockedDomains' = blockedDomains]_vars

\* An open book with a contact row for alice and both patterns of y.net on
\* file and in the caches, whose last removeBlock threw.
C34_Witness ==
    /\ fnPc = "open"
    /\ fnResult = BookCall("removeBlock", "threw")
    /\ contacts[<<"alice", "x.org">>] # NoContact
    /\ contacts[<<"bob", "y.net">>] = NoContact
    /\ blockedPatterns = {<<"bob", "y.net">>, <<"*", "y.net">>}
    /\ isKnown(<<"alice", "x.org">>)
    /\ ~isKnown(<<"bob", "y.net">>)
    /\ isBlocked(<<"bob", "y.net">>)
    /\ ~isBlocked(<<"alice", "x.org">>)

\* ------------------------------------------------------------ push transport

LiveTransports ==
    {j \in 1..Len(transports) :
        transports[j].running \/ transports[j].ws # "none" \/ transports[j].timer # 0}

\* C37: at most one transport of an Agent is live at a time, and a transport
\* whose connect() was rejected is not live.
C37_SingleTransport ==
    /\ Cardinality(LiveTransports) <= 1
    /\ \A j \in LiveTransports : transports[j].promise # "rejected"

\* The second half of C37 alone: a transport whose connect() was rejected is not
\* left retrying.
C37_RejectedStops ==
    \A j \in LiveTransports : transports[j].promise # "rejected"

\* ------------------------------------------------------------ handshake and contacts

\* C38: handling a handshake.request from S, and approve(S), leave the contact
\* record of every address other than S as it was, whatever address and key the
\* enclosed contact card carries.
C38_OnlySendersRecord ==
    [][/\ (inPc = "loop" /\ inRemaining > 0) =>
            \A raw \in RawEnvelopes, ok \in BOOLEAN :
                (raw.type = "handshake.request" /\ InboxProcessOn(raw, ok)) =>
                    \A a \in Addr \ {raw.from} : contacts'[a] = contacts[a]
       /\ \A s \in Addr :
            Approve(s) => \A a \in Addr \ {s} : contacts'[a] = contacts[a]]_vars

\* ------------------------------------------------------------ Tier 3 cache

\* The time the entry was stored
StoredAt(entry) == entry.expiresAt - tier3Resolver.cacheTtlMs

\* C36: a resolvePublicKey call answers from the cache only when the entry of the
\* name was stored less than the TTL ago, and then starts no on-chain read; a
\* call that finds no entry (never resolved, or invalidated) or one stored the
\* TTL ago or earlier starts an on-chain read; a lookup that fails or finds an
\* empty key stores nothing; invalidateCache removes the entry of the name, or
\* all entries; every entry holds a key the chain returned.
C36_TtlCache ==
    [][LET call == fnResult'
           entry == tier3Resolver.cache[call.name]
       IN  /\ (call # fnResult /\ call.outcome = "hit") =>
                 /\ entry # NoEntry
                 /\ now - StoredAt(entry) < tier3Resolver.cacheTtlMs
                 /\ call.publicKey = entry.publicKey
                 /\ tier3Resolver' = tier3Resolver
           /\ (call # fnResult /\ call.outcome = "reading") =>
                 /\ entry = NoEntry \/ now - StoredAt(entry) >= tier3Resolver.cacheTtlMs
                 /\ call.name \in tier3Resolver'.reading
                 /\ call.name \notin tier3Resolver.reading
           /\ (call # fnResult /\ call.call = "resolvePublicKey") =>
                 call.outcome \in {"hit", "reading", "returned", "UAMError"}
           /\ (call # fnResult /\ call.outcome = "UAMError") =>
                 tier3Resolver'.cache = tier3Resolver.cache
           /\ (call # fnResult /\ call.call = "invalidateCache") =>
                 \A name \in Tier3Names :
                    tier3Resolver'.cache[name] =
                        IF call.name \in {"", name} THEN NoEntry ELSE tier3Resolver.cache[name]
           /\ \A name \in Tier3Names :
                 tier3Resolver'.cache[name] # NoEntry => tier3Resolver'.cache[name].publicKey \in Keys]_vars

\* With the default TTL of one hour: acme was resolved at time 1 and is served
\* from the cache one millisecond before the hour is over, while the entry of
\* corp is gone and its lookup is in flight.
C36_Witness ==
    /\ tier3Resolver.cacheTtlMs = 3600000
    /\ fnResult = Tier3Call("resolvePublicKey", "acme", "hit", "k1")
    /\ tier3Resolver.cache["acme"] = [publicKey |-> "k1", expiresAt |-> 3600001]
    /\ now = 3600000
    /\ tier3Resolver.cache["corp"] = NoEntry
    /\ "corp" \in tier3Resolver.reading

====
